---- MODULE Spec2Model ----
(***************************************************************************)
(* Model of the evolutionary trading core of bybit_evolution_bot:          *)
(*   core/worker.py      Robot (balance / position / trade bookkeeping)    *)
(*   core/strategies.py  SimpleStrategy.generate_signal                    *)
(*   evolution/selection.py  select_parents                                *)
(*   analysis/metrics.py AdvancedMetrics                                   *)
(*   core/master.py      EvolutionManager                                  *)
(*                                                                         *)
(* Units.  Python floats are modelled by exact integer / rational          *)
(* arithmetic.  Money is counted in hundredths (the step of round(.., 2)   *)
(* in generate_signal), a quantity in the rounding step generate_signal    *)
(* uses for the symbol (1e-4 for BTCUSDT, 1 for DOGEUSDT), a price in      *)
(* hundredths per quantity step.  Every other float (an average price, a   *)
(* gene's trade_percentage and risk_appetite, current_profit, a metric, a  *)
(* fitness) is a fraction <<num, den>> in lowest terms, den > 0;           *)
(* <<1, 0>>, <<-1, 0>> and <<0, 0>> stand for inf, -inf and nan.           *)
(* With quantities that are whole steps, "qty <= 1e-12" is "qty <= 0".     *)
(***************************************************************************)
EXTENDS Integers, Sequences, FiniteSets, TLC

\* ------------------------------------------------------------------ bounds
\* Number of Robot operations explored by the single-robot specification.
MaxCalls == 3
\* Largest population handed to select_parents on its own.
MaxSelectPop == 3
\* Bound on the robot.trade calls of one execution of main(): a generation
\* is started only if its trading pass fits.
MaxTradeSteps == 2
\* Bound on the children create_new_generation constructs in one execution
\* of main(): a generation is started only if its children fit.
MaxChildren == 2
\* Bits of the mantissa of a float where rounding is modelled (53 in the
\* double).
MantissaBits == 4

\* ------------------------------------------------------- program constants
\* max_generations of main()
MainMaxGenerations == 10
\* the generation cap of should_continue_evolution (its second definition,
\* the one Python keeps)
GenerationCap == 100
\* current_price of the default market data (50000.0 per BTC), in
\* hundredths per 1e-4 BTC
FallbackPrice == 500

\* ------------------------------------------------------------ input sets
Symbols == {"BTCUSDT", "DOGEUSDT"}
\* market_data['current_price'] values handed to trade
Prices == {100, 200}
\* executedPrice values the order collaborator may report
ExecPrices == {100, 200}
\* initial_balance values of the single-robot specification
RobotBalances == {400, 20000}
\* gene['trade_percentage'] values: 0.01 and 0.1, the ends of its range
TradePercentages == {<<1, 100>>, <<1, 10>>}
\* random.choice(['buy', 'sell', 'hold', 'buy', 'sell'])
Decisions == {"buy", "sell", "hold"}
\* What place_order can do: raise, return {} (no fill), return an order
\* without executedPrice, or return an order carrying executedPrice.
OrderOutcomes ==
    {[kind |-> "raise"], [kind |-> "empty"], [kind |-> "noprice"]}
        \cup {[kind |-> "priced", executedPrice |-> p] : p \in ExecPrices}
\* What close_all_longs can do: return True, return False, or raise.
CloseOutcomes == {"ok", "failed", "raise"}
\* random.uniform(-0.05, 0.1) of update_profit, in hundredths: both ends
ProfitPercents == {-5, 10}
\* fitness_weights of get_default_config: three of the six keys
DefaultWeights ==
    [profit |-> <<1, 1>>, sharpe_ratio |-> <<1, 2>>, max_drawdown |-> <<-1, 2>>]
\* fitness_weights with all six keys evaluate_generation reads
FullWeights ==
    [profit |-> <<1, 1>>, sharpe_ratio |-> <<1, 2>>, max_drawdown |-> <<-1, 2>>,
     profit_factor |-> <<1, 10>>, win_rate |-> <<1, 10>>, consistency |-> <<1, 10>>]
\* Configurations load_config can return (config.json is free to hold any
\* of them; nothing checks it).  A key that may be absent holds <<>> when it
\* is, <<v>> when it is v.  One of them sets a cap of one generation.
Configs ==
    {[population_size |-> n, initial_balance |-> b,
      generation_duration_minutes |-> d, symbol |-> "BTCUSDT",
      fitness_weights |-> w, elite_size |-> <<>>, max_generations |-> <<>>] :
        n \in {0, 2}, b \in {0, 20000}, d \in {0, 1},
        w \in {DefaultWeights, FullWeights}}
    \cup
    {[population_size |-> 2, initial_balance |-> 20000,
      generation_duration_minutes |-> 0, symbol |-> "BTCUSDT",
      fitness_weights |-> FullWeights, elite_size |-> <<>>,
      max_generations |-> <<1>>]}
\* robot.fitness values handed to select_parents on its own: negative, zero,
\* positive, not a number.
FitnessSamples == {<<-2, 1>>, <<0, 1>>, <<3, 1>>, <<0, 0>>}

\* -------------------------------------------------------------- arithmetic
Abs(x) == IF x < 0 THEN -x ELSE x

RECURSIVE GCD(_, _)
GCD(a, b) == IF b = 0 THEN a ELSE GCD(b, a % b)

\* The fraction n/d (d > 0) in lowest terms.
Frac(n, d) ==
    LET g == GCD(Abs(n), d)
    IN  IF g = 0 THEN <<0, 1>> ELSE <<n \div g, d \div g>>

\* Python round(): n/d (d > 0) to the nearest integer, ties to even.
RoundHalfEven(n, d) ==
    LET q == n \div d
        r == n % d
    IN  IF 2 * r < d THEN q
        ELSE IF 2 * r > d THEN q + 1
        ELSE IF q % 2 = 0 THEN q ELSE q + 1

Min(a, b) == IF a <= b THEN a ELSE b
Max(a, b) == IF a >= b THEN a ELSE b

\* ------------------------------------------------------------------ Robot
\* Robot.__init__
NewRobot(robot_id, generation_born, initial_balance, gene) ==
    [robot_id        |-> robot_id,
     generation_born |-> generation_born,
     balance         |-> initial_balance,
     initial_balance |-> initial_balance,
     gene            |-> gene,
     positions       |-> <<>>,
     trades          |-> <<>>,
     children_count  |-> 0,
     current_profit  |-> <<0, 1>>,
     survived_cycles |-> 0,
     fitness         |-> <<0, 1>>,
     balance_history |-> <<initial_balance>>,
     returns         |-> <<>>,
     last_symbol     |-> "none"]

\* Robot._get_position: index of the first position of the symbol, 0 if none.
GetPosition(positions, symbol) ==
    IF \E i \in 1..Len(positions) : positions[i].symbol = symbol
    THEN CHOOSE i \in 1..Len(positions) :
            /\ positions[i].symbol = symbol
            /\ \A j \in 1..(i - 1) : positions[j].symbol # symbol
    ELSE 0

\* The list comprehension [p for p in self.positions if p['symbol'] != symbol]
RemoveSymbol(positions, symbol) ==
    SelectSeq(positions, LAMBDA p : p.symbol # symbol)

\* avg_price after a buy that adds to an open position (worker.py line 44).
WeightedAvgMutant(avg, qty, price, add) ==
    Frac(avg[1] + price * avg[2], 2 * avg[2])

WeightedAvg(avg, qty, price, add) ==
    Frac(avg[1] * qty + price * add * avg[2], avg[2] * (qty + add))

\* Robot._update_position_on_buy
UpdatePositionOnBuy(positions, symbol, qty, price) ==
    LET i == GetPosition(positions, symbol)
    IN  IF i = 0
        THEN Append(positions,
                    [symbol |-> symbol, qty |-> qty, avg_price |-> <<price, 1>>])
        ELSE LET pos == positions[i]
                 total_qty == pos.qty + qty
             IN  IF total_qty <= 0
                 THEN [positions EXCEPT ![i] =
                          [symbol |-> symbol, qty |-> 0, avg_price |-> <<0, 1>>]]
                 ELSE [positions EXCEPT ![i] =
                          [symbol |-> symbol, qty |-> total_qty,
                           avg_price |-> WeightedAvg(pos.avg_price, pos.qty,
                                                     price, qty)]]

\* The test "pos['qty'] <= 1e-12" of _update_position_on_sell.
PositionClosedMutant(qty) == qty < 0

PositionClosed(qty) == qty <= 0

\* Robot._update_position_on_sell
UpdatePositionOnSell(positions, symbol, qty) ==
    LET i == GetPosition(positions, symbol)
    IN  IF i = 0 THEN positions
        ELSE LET left == positions[i].qty - qty
             IN  IF PositionClosed(left)
                 THEN RemoveSymbol(positions, symbol)
                 ELSE [positions EXCEPT ![i].qty = left]

\* Robot._min_qty_for_symbol: 0.001 BTC is 10 steps of 1e-4, 100 DOGE is
\* 100 steps of 1.
MinQtyForSymbol(symbol) ==
    IF symbol = "BTCUSDT" THEN 10 ELSE 100

\* SimpleStrategy.generate_signal with a robot given: the signal for the
\* drawn decision.
GenerateSignal(symbol, current_price, robot, decision) ==
    LET trade_percentage == robot.gene.trade_percentage
        \* usd_amount = balance * trade_percentage is usd_num / usd_den
        usd_num == robot.balance * trade_percentage[1]
        usd_den == trade_percentage[2]
        min_usd_amount == 100 * current_price
        qty == IF symbol = "DOGEUSDT" /\ usd_num < min_usd_amount * usd_den
               THEN 120      \* (min_usd_amount * 1.2) / current_price
               ELSE RoundHalfEven(usd_num, usd_den * current_price)
    IN  IF decision = "buy"
        THEN [action |-> "buy",
              price  |-> RoundHalfEven(current_price * 99, 100),
              qty    |-> qty]
        ELSE IF decision = "sell"
        THEN [action |-> "sell",
              price  |-> RoundHalfEven(current_price * 101, 100),
              qty    |-> qty]
        ELSE [action |-> "hold", price |-> current_price, qty |-> 0]

\* The balance check of trade (worker.py line 80).
InsufficientFundsMutant(action, est_order_cost, balance) == FALSE

InsufficientFunds(action, est_order_cost, balance) ==
    action = "buy" /\ est_order_cost > balance

\* "pos is None or pos['qty'] <= 0" (worker.py line 86).
NoPositionToSellMutant(positions, symbol) == FALSE

NoPositionToSell(positions, symbol) ==
    \/ GetPosition(positions, symbol) = 0
    \/ positions[GetPosition(positions, symbol)].qty <= 0

\* desired_qty = min(desired_qty, pos['qty']) (worker.py line 90).
ClampSellQtyMutant(desired_qty, held_qty) == desired_qty

ClampSellQty(desired_qty, held_qty) == Min(desired_qty, held_qty)

\* float(order.get('executedPrice', price_hint)) (worker.py lines 106, 132).
ExecutedPriceMutant(order, price_hint) == price_hint

ExecutedPrice(order, price_hint) ==
    IF order.kind = "priced" THEN order.executedPrice ELSE price_hint

\* The booking of a confirmed Buy that records the estimated cost of one
\* unit instead of the cost charged.
BuyFillMutant(robot, symbol, qty, executed_price) ==
    LET order_cost == executed_price * qty
    IN  [robot EXCEPT
            !.balance   = @ - order_cost,
            !.positions = UpdatePositionOnBuy(@, symbol, qty, executed_price),
            !.trades    = Append(@, [action |-> "buy", price |-> executed_price,
                                     qty |-> qty, cost |-> executed_price])]

\* The booking of a confirmed Buy (worker.py lines 107-120).  timestamp and
\* orderId are not modelled.
BuyFill(robot, symbol, qty, executed_price) ==
    LET order_cost == executed_price * qty
    IN  [robot EXCEPT
            !.balance   = @ - order_cost,
            !.positions = UpdatePositionOnBuy(@, symbol, qty, executed_price),
            !.trades    = Append(@, [action |-> "buy", price |-> executed_price,
                                     qty |-> qty, cost |-> order_cost])]

\* The booking of a confirmed Sell (worker.py lines 132-146).
SellFill(robot, symbol, qty, executed_price) ==
    LET revenue == executed_price * qty
    IN  [robot EXCEPT
            !.balance   = @ + revenue,
            !.positions = UpdatePositionOnSell(@, symbol, qty),
            !.trades    = Append(@, [action |-> "sell", price |-> executed_price,
                                     qty |-> qty, revenue |-> revenue])]

\* What trade does once it enters the try block (worker.py lines 96-152)
\* and place_order ends with the outcome `order`.  A raise is caught by
\* "except Exception" and logged, and trade falls through to "return False";
\* an empty result is no fill.  Both leave the robot as it is.
TryOrderMutant(robot, symbol, action, qty, price_hint, order) ==
    [robot |-> robot, ret |-> FALSE, propagated |-> order.kind = "raise"]

TryOrder(robot, symbol, action, qty, price_hint, order) ==
    IF order.kind \in {"raise", "empty"}
    THEN [robot |-> robot, ret |-> FALSE, propagated |-> FALSE]
    ELSE [robot |-> IF action = "buy"
                    THEN BuyFill(robot, symbol, qty,
                                 ExecutedPrice(order, price_hint))
                    ELSE SellFill(robot, symbol, qty,
                                  ExecutedPrice(order, price_hint)),
          ret |-> TRUE, propagated |-> FALSE]

\* Robot.trade(symbol, market_data) with the strategy's random decision and
\* the order collaborator's outcome given.  The result carries the robot
\* after the call, the value returned, whether place_order was called and
\* whether an exception left trade, with the signal it worked on.
Trade(robot, symbol, current_price, decision, order) ==
    LET r0             == [robot EXCEPT !.last_symbol = symbol]
        signal         == GenerateSignal(symbol, current_price, robot, decision)
        action         == signal.action
        price_hint     == signal.price
        min_qty        == MinQtyForSymbol(symbol)
        est_order_cost == price_hint * signal.qty
        i              == GetPosition(robot.positions, symbol)
        held           == IF i = 0 THEN 0 ELSE robot.positions[i].qty
        desired_qty    == IF action = "sell" /\ i # 0
                          THEN ClampSellQty(signal.qty, held) ELSE signal.qty
        info           == [action |-> action, price_hint |-> price_hint,
                           signal_qty |-> signal.qty, qty |-> desired_qty,
                           est_order_cost |-> est_order_cost, held |-> held,
                           symbol |-> symbol, propagated |-> FALSE]
        rejected       == [robot |-> r0, ret |-> FALSE, ordered |-> FALSE,
                           order |-> [kind |-> "none"], info |-> info]
    IN  IF current_price = 0
        \* generate_signal divides by current_price outside any try block:
        \* ZeroDivisionError leaves trade after last_symbol was set
        THEN [robot |-> r0, ret |-> FALSE, ordered |-> FALSE,
              order |-> [kind |-> "none"],
              info |-> [action |-> "none", price_hint |-> 0, signal_qty |-> 0,
                        qty |-> 0, est_order_cost |-> 0, held |-> 0,
                        symbol |-> symbol, propagated |-> TRUE]]
        ELSE IF InsufficientFunds(action, est_order_cost, robot.balance)
        THEN rejected
        ELSE IF action = "sell" /\ NoPositionToSell(robot.positions, symbol)
        THEN rejected
        ELSE IF action = "sell" /\ desired_qty < min_qty
        THEN rejected
        ELSE IF action = "hold"
        THEN rejected
        ELSE LET done == TryOrder(r0, symbol, action, desired_qty,
                                  price_hint, order)
             IN  [robot   |-> done.robot,
                  ret     |-> done.ret,
                  ordered |-> TRUE,
                  order   |-> order,
                  info    |-> [info EXCEPT !.propagated = done.propagated]]

\* Whether close_all_positions filters the local positions for this outcome
\* of client.close_all_longs: the filter runs after the call returned, so a
\* raise (caught and logged) skips it.
ClearsAfterCloseMutant(outcome) == TRUE

ClearsAfterClose(outcome) == outcome # "raise"

\* A close_all_positions that credits the balance with the value of the
\* position it drops, at its average price.
CloseAllPositionsMutant(robot, outcome) ==
    LET i == GetPosition(robot.positions, robot.last_symbol)
    IN  IF robot.last_symbol = "none"
        THEN [robot |-> robot, called |-> FALSE]
        ELSE [robot  |-> IF ClearsAfterClose(outcome)
                         THEN [robot EXCEPT
                                 !.positions = RemoveSymbol(@, robot.last_symbol),
                                 !.balance = IF i = 0 THEN @
                                             ELSE @ + (robot.positions[i].qty
                                                  * robot.positions[i].avg_price[1])
                                                  \div robot.positions[i].avg_price[2]]
                         ELSE robot,
              called |-> TRUE]

\* Robot.close_all_positions.  strategy.client is always set by
\* EvolutionManager; last_symbol is set by the first trade.
CloseAllPositions(robot, outcome) ==
    IF robot.last_symbol = "none"
    THEN [robot |-> robot, called |-> FALSE]
    ELSE [robot  |-> IF ClearsAfterClose(outcome)
                     THEN [robot EXCEPT !.positions =
                              RemoveSymbol(@, robot.last_symbol)]
                     ELSE robot,
          called |-> TRUE]

\* ------------------------------------------------------------------ genes
\* The condition catalog of _generate_random_decision_tree, in its order.
Catalog ==
    << [indicator |-> "rsi", operator |-> "<", value |-> 30, action |-> "buy"],
       [indicator |-> "rsi", operator |-> ">", value |-> 70, action |-> "sell"],
       [indicator |-> "price_above_ema", operator |-> "==", value |-> 1, action |-> "buy"],
       [indicator |-> "price_below_ema", operator |-> "==", value |-> 1, action |-> "sell"],
       [indicator |-> "high_volume", operator |-> "==", value |-> 1, action |-> "buy"],
       [indicator |-> "trend_alignment", operator |-> "==", value |-> 1, action |-> "buy"] >>

\* Decision trees _generate_random_decision_tree can draw (a sample of the
\* subsets of 2 .. 5 catalog entries, without repetition).
TreeSamples ==
    { <<Catalog[1], Catalog[2]>>, <<Catalog[4], Catalog[3], Catalog[6]>> }

\* EvolutionManager._generate_random_gene: the genes it can return.
RandomGenes ==
    { [strategy_type      |-> "decision_tree",
       decision_tree      |-> t,
       trade_percentage   |-> tp,
       risk_appetite      |-> <<1, 2>>,
       max_trade_duration |-> 5] : t \in TreeSamples, tp \in TradePercentages }

\* The genes drawn for the robots of an initial population: each tree with
\* one of the trade percentages.
InitialGenes ==
    { g \in RandomGenes :
        (g.decision_tree = <<Catalog[1], Catalog[2]>>)
            <=> (g.trade_percentage = <<1, 100>>) }

\* ------------------------------------------------- floats as fractions
Inf == <<1, 0>>
NegInf == <<-1, 0>>
NaN == <<0, 0>>
IsFinite(x) == x[2] # 0                            \* np.isfinite
IsNaN(x) == x = NaN

\* x + y, x - y of IEEE floats, finite ones exact.
FAdd(x, y) ==
    IF IsNaN(x) \/ IsNaN(y) THEN NaN
    ELSE IF ~IsFinite(x) /\ ~IsFinite(y) THEN (IF x = y THEN x ELSE NaN)
    ELSE IF ~IsFinite(x) THEN x
    ELSE IF ~IsFinite(y) THEN y
    ELSE Frac(x[1] * y[2] + y[1] * x[2], x[2] * y[2])

FNeg(x) == <<-x[1], x[2]>>

FSub(x, y) == FAdd(x, FNeg(y))

\* x < y of IEEE floats (False when either is nan).
FLess(x, y) ==
    IF IsNaN(x) \/ IsNaN(y) THEN FALSE
    ELSE IF x = y THEN FALSE
    ELSE IF x = NegInf \/ y = Inf THEN TRUE
    ELSE IF x = Inf \/ y = NegInf THEN FALSE
    ELSE x[1] * y[2] < y[1] * x[2]

\* np.min of a non-empty sequence of floats: nan if any entry is nan.
NpMin(xs) ==
    IF \E i \in 1..Len(xs) : IsNaN(xs[i]) THEN NaN
    ELSE xs[CHOOSE i \in 1..Len(xs) : \A j \in 1..Len(xs) : ~FLess(xs[j], xs[i])]

RECURSIVE FSum(_)
FSum(xs) == IF xs = <<>> THEN <<0, 1>> ELSE FAdd(xs[1], FSum(Tail(xs)))

\* -------------------------------------------------------- select_parents
\* A weight is whole + eps * 1e-12, whole a float and eps a count of the
\* 1e-12 the code adds (selection.py lines 35, 37).
WPositive(w) ==
    \/ FLess(<<0, 1>>, w.whole)
    \/ w.whole = <<0, 1>> /\ w.eps > 0

\* selection.py lines 32-49: the weights whose quotient by `total` is the
\* probability vector handed to np.random.choice.
ProbabilitiesMutant(cand_fitness) ==
    [uniform |-> FALSE,
     w       |-> [i \in 1..Len(cand_fitness) |->
                    [whole |-> IF i = 1 THEN <<1, 1>> ELSE <<0, 1>>, eps |-> 0]],
     total   |-> [whole |-> <<1, 1>>, eps |-> 0]]

Probabilities(cand_fitness) ==
    LET n       == Len(cand_fitness)
        min_fit == NpMin(cand_fitness)
        shifted == [i \in 1..n |->
                      IF FLess(min_fit, <<0, 1>>)
                      THEN FSub(cand_fitness[i], min_fit)
                      ELSE cand_fitness[i]]
        total   == FSum(shifted)
    IN  IF ~IsFinite(total) \/ ~WPositive([whole |-> total, eps |-> n])
        THEN [uniform |-> TRUE,
              w       |-> [i \in 1..n |-> [whole |-> <<1, 1>>, eps |-> 0]],
              total   |-> [whole |-> <<n, 1>>, eps |-> 0]]
        ELSE [uniform |-> FALSE,
              \* np.clip(p, 0, None) changes no entry: none is negative
              w       |-> [i \in 1..n |-> [whole |-> shifted[i], eps |-> 1]],
              total   |-> [whole |-> total, eps |-> n]]

\* The sequences of k distinct members of the set S, in every order.
RECURSIVE OrderedSamples(_, _)
OrderedSamples(S, k) ==
    IF k = 0 THEN {<<>>}
    ELSE UNION {{<<x>> \o rest : rest \in OrderedSamples(S \ {x}, k - 1)} : x \in S}

\* np.random.choice(candidates, size, p, replace=False): the index
\* sequences it can draw; it raises ValueError when fewer than `size`
\* entries of p are non-zero.
ChoiceMutant(n, size, prob) ==
    {[raised |-> FALSE, picks |-> ix] : ix \in [1..size -> 1..n]}

Choice(n, size, prob) ==
    LET support == {i \in 1..n : WPositive(prob.w[i])}
    IN  IF Cardinality(support) < size
        THEN {[raised |-> TRUE, picks |-> <<>>]}
        ELSE {[raised |-> FALSE, picks |-> ix] : ix \in OrderedSamples(support, size)}

\* The clamp of selection.py line 13.
EliteCount(elite_size, n) == Max(0, Min(elite_size, n))

\* select_parents(population, elite_size): every outcome it can have, a
\* returned list or an exception leaving it.
SelectParents(population, elite_size) ==
    LET n          == Len(population)
        es         == EliteCount(elite_size, n)
        elites     == SubSeq(population, 1, Min(es, n))
        remaining  == n - es
        candidates == SubSeq(population, es + 1, n)
        prob       == Probabilities([i \in 1..Len(candidates) |->
                                        candidates[i].fitness])
        sample_size == Min(remaining, Len(candidates))
    IN  IF n = 0 THEN {[raised |-> FALSE, result |-> <<>>, prob |-> "none"]}
        ELSE IF remaining <= 0 \/ Len(candidates) = 0 \/ sample_size <= 0
        THEN {[raised |-> FALSE, result |-> elites, prob |-> "none"]}
        ELSE {[raised |-> c.raised,
               result |-> IF c.raised THEN <<>>
                          ELSE elites \o [j \in 1..sample_size |->
                                             candidates[c.picks[j]]],
               prob   |-> prob] :
                 c \in Choice(Len(candidates), sample_size, prob)}

\* ---------------------------------------------------- AdvancedMetrics
FMul(x, y) == Frac(x[1] * y[1], x[2] * y[2])        \* finite floats

\* n / d of two integers, d # 0.
FQuot(n, d) == IF d < 0 THEN Frac(-n, -d) ELSE Frac(n, d)

AllEqual(xs) == \A i, j \in 1..Len(xs) : xs[i] = xs[j]

\* The positive n / d * 2^e rounded to a float: scaled until the quotient
\* has MantissaBits bits, then rounded to the nearest integer, ties to even.
RECURSIVE RoundScaled(_, _, _)
RoundScaled(n, d, e) ==
    IF n >= d * 2^MantissaBits THEN RoundScaled(n, 2 * d, e + 1)
    ELSE IF n < d * 2^(MantissaBits - 1) THEN RoundScaled(2 * n, d, e - 1)
    ELSE Frac(RoundHalfEven(n, d) * (IF e >= 0 THEN 2^e ELSE 1),
              IF e >= 0 THEN 1 ELSE 2^(-e))

\* r with the sign of n
Signed(r, n) == IF n < 0 THEN <<-r[1], r[2]>> ELSE r

\* The result of a float operation whose exact value is x: x rounded to a
\* mantissa of MantissaBits bits (IEEE round to nearest, ties to even).
Fl(x) ==
    IF ~IsFinite(x) \/ x[1] = 0 THEN x
    ELSE Signed(RoundScaled(Abs(x[1]), x[2], 0), x[1])

\* np.mean of fewer than 8 floats from the i-th on, acc being the sum so
\* far: the floats are added one by one and the sum is divided by their
\* number, the result of each operation rounded.
RECURSIVE FloatMeanFrom(_, _, _)
FloatMeanFrom(xs, i, acc) ==
    IF i > Len(xs) + 1 THEN acc
    ELSE FloatMeanFrom(xs, i + 1,
                       Fl(IF i = Len(xs) + 1 THEN FMul(acc, <<1, Len(xs)>>)
                          ELSE FAdd(acc, xs[i])))

\* np.mean of a non-empty list of floats
FloatMean(xs) == FloatMeanFrom(xs, 2, xs[1])

\* np.std(xs) == 0, mean being np.mean(xs): np.std is the root of the mean
\* of (x - mean)^2, which is 0 exactly when every x equals the mean np.std
\* computed.
StdIsZero(xs, mean) == \A i \in 1..Len(xs) : xs[i] = mean

\* calculate_sharpe_ratio.  With a non-zero np.std the value is irrational
\* and is kept as the samples, tagged; it is no fraction.
CalculateSharpeRatio(returns) ==
    IF Len(returns) < 2 \/ StdIsZero(returns, FloatMean(returns)) THEN <<0, 1>>
    ELSE <<"sharpe", Len(returns), returns>>

\* calculate_consistency once np.mean(returns) is known
ConsistencyOf(returns, mean) ==
    IF mean = <<0, 1>> THEN <<0, 1>>                        \* mean == 0
    ELSE IF StdIsZero(returns, mean) THEN <<1, 1>>          \* 1 - 0 / mean
    ELSE <<"consistency", mean, returns>>

\* calculate_consistency
CalculateConsistency(returns) ==
    IF Len(returns) < 2 THEN <<0, 1>>
    ELSE ConsistencyOf(returns, FloatMean(returns))

\* calculate_max_drawdown from position i on: (peak - balance) / peak raises
\* ZeroDivisionError when the running peak is 0.
RECURSIVE MaxDrawdownFrom(_, _, _, _)
MaxDrawdownFrom(balances, i, peak, max_drawdown) ==
    IF i > Len(balances) THEN [raised |-> FALSE, value |-> max_drawdown]
    ELSE LET peak2 == IF balances[i] > peak THEN balances[i] ELSE peak
         IN  IF peak2 = 0 THEN [raised |-> TRUE, value |-> max_drawdown]
             ELSE LET drawdown == FQuot(peak2 - balances[i], peak2)
                  IN  MaxDrawdownFrom(balances, i + 1, peak2,
                          IF FLess(max_drawdown, drawdown) THEN drawdown
                          ELSE max_drawdown)

\* calculate_max_drawdown
CalculateMaxDrawdown(balances) ==
    MaxDrawdownFrom(balances, 1, balances[1], <<0, 1>>)

\* trade.get(key, 0)
TradeGet(trade, key) == IF key \in DOMAIN trade THEN trade[key] ELSE 0

RECURSIVE SumOver(_, _, _)
SumOver(trades, action, key) ==
    IF trades = <<>> THEN 0
    ELSE (IF trades[1].action = action THEN TradeGet(trades[1], key) ELSE 0)
         + SumOver(Tail(trades), action, key)

\* calculate_profit_factor
CalculateProfitFactor(trades) ==
    LET gross_profit == SumOver(trades, "sell", "revenue")
        gross_loss   == Abs(SumOver(trades, "buy", "cost"))
    IN  IF gross_loss = 0 THEN <<10, 1>> ELSE Frac(gross_profit, gross_loss)

\* calculate_win_rate
CalculateWinRate(trades) ==
    IF trades = <<>> THEN <<0, 1>>
    ELSE Frac(Cardinality({i \in 1..Len(trades) :
                 TradeGet(trades[i], "revenue") > TradeGet(trades[i], "cost")}),
              Len(trades))

\* ------------------------------------------------- evaluate_generation
WeightKeys ==
    <<"profit", "sharpe_ratio", "max_drawdown", "profit_factor", "win_rate",
      "consistency">>

\* The body of the loop of evaluate_generation for one robot (master.py
\* lines 160-183): the fitness, or the exception that leaves the loop.
FitnessOf(robot, weights) ==
    LET sharpe_ratio  == CalculateSharpeRatio(robot.returns)
        max_drawdown  == CalculateMaxDrawdown(robot.balance_history)
        profit_factor == CalculateProfitFactor(robot.trades)
        win_rate      == CalculateWinRate(robot.trades)
        consistency   == CalculateConsistency(robot.returns)
        profit_component == FMul(robot.current_profit,
                                 FQuot(1, robot.initial_balance))
        risk_component   == FSub(<<1, 1>>, max_drawdown.value)
        component == [profit        |-> profit_component,
                      sharpe_ratio  |-> sharpe_ratio,
                      max_drawdown  |-> risk_component,
                      profit_factor |-> profit_factor,
                      win_rate      |-> win_rate,
                      consistency   |-> consistency]
    IN  IF max_drawdown.raised \/ robot.initial_balance = 0
        THEN [raised |-> TRUE, error |-> "ZeroDivisionError", fitness |-> robot.fitness]
        ELSE IF \E i \in 1..Len(WeightKeys) : WeightKeys[i] \notin DOMAIN weights
        THEN [raised |-> TRUE, error |-> "KeyError", fitness |-> robot.fitness]
        ELSE [raised |-> FALSE, error |-> "none",
              fitness |-> FSum([i \in 1..Len(WeightKeys) |->
                                  FMul(weights[WeightKeys[i]],
                                       component[WeightKeys[i]])])]

\* list.sort(key=fitness, reverse=True): descending, equal keys keep their
\* order.
RECURSIVE SortByFitness(_)
SortByFitness(pop) ==
    IF pop = <<>> THEN <<>>
    ELSE LET rest == SortByFitness(SubSeq(pop, 1, Len(pop) - 1))
             x    == pop[Len(pop)]
             k    == Cardinality({i \in 1..Len(rest) :
                                     ~FLess(rest[i].fitness, x.fitness)})
         IN  SubSeq(rest, 1, k) \o <<x>> \o SubSeq(rest, k + 1, Len(rest))

\* The loop of evaluate_generation from robot i on: it stops at the first
\* robot whose fitness computation raises.
RECURSIVE EvaluateFrom(_, _, _)
EvaluateFrom(pop, i, weights) ==
    IF i > Len(pop)
    THEN [population |-> pop, raised |-> FALSE, error |-> "none",
          attempted |-> Len(pop)]
    ELSE LET f == FitnessOf(pop[i], weights)
         IN  IF f.raised
             THEN [population |-> pop, raised |-> TRUE, error |-> f.error,
                   attempted |-> i]
             ELSE EvaluateFrom([pop EXCEPT ![i].fitness = f.fitness], i + 1,
                               weights)

\* evaluate_generation: the loop, the sort, and the read of population[0]
\* (IndexError on an empty population).
EvaluateGeneration(pop, weights) ==
    LET loop == EvaluateFrom(pop, 1, weights)
    IN  IF loop.raised
        THEN [population |-> loop.population, raised |-> TRUE,
              error |-> loop.error, attempted |-> loop.attempted,
              sorted |-> FALSE]
        ELSE [population |-> SortByFitness(loop.population),
              raised |-> pop = <<>>,
              error |-> IF pop = <<>> THEN "IndexError" ELSE "none",
              attempted |-> loop.attempted, sorted |-> TRUE]

\* ------------------------------------------------------ crossover, mutate
\* (x + y) / 2
FMean(x, y) == FMul(FAdd(x, y), <<1, 2>>)

\* crossover cutting both trees at half the length of the first.
CrossoverMutant(gene1, gene2) ==
    LET t1 == gene1.decision_tree
        t2 == gene2.decision_tree
    IN  [trade_percentage |-> FMean(gene1.trade_percentage, gene2.trade_percentage),
         risk_appetite    |-> FMean(gene1.risk_appetite, gene2.risk_appetite),
         decision_tree    |-> SubSeq(t1, 1, Len(t1) \div 2)
                                \o SubSeq(t2, Len(t1) \div 2 + 1, Len(t2))]

\* crossover(gene1, gene2): the child has these three keys only.
Crossover(gene1, gene2) ==
    LET t1 == gene1.decision_tree
        t2 == gene2.decision_tree
    IN  [trade_percentage |-> FMean(gene1.trade_percentage, gene2.trade_percentage),
         risk_appetite    |-> FMean(gene1.risk_appetite, gene2.risk_appetite),
         decision_tree    |-> SubSeq(t1, 1, Len(t1) \div 2)
                                \o SubSeq(t2, Len(t2) \div 2 + 1, Len(t2))]

\* np.random.normal(0, 0.1) draws of mutate
NoiseSamples == {<<-1, 1>>, <<1, 10>>}

\* Conditions mutate can append (genes.py lines 26-31).
NewConditions ==
    { [indicator |-> "volume", operator |-> "<", value |-> 20, action |-> "sell"] }

\* np.clip(x, 0.1, 0.9)
ClipRisk(x) ==
    IF FLess(x, <<1, 10>>) THEN <<1, 10>>
    ELSE IF FLess(<<9, 10>>, x) THEN <<9, 10>>
    ELSE x

\* del tree[k]
DeleteAt(tree, k) == SubSeq(tree, 1, k - 1) \o SubSeq(tree, k + 1, Len(tree))

\* mutate(gene): every gene it can return, over its three random gates.
Mutate(gene) ==
    LET tps   == {gene.trade_percentage} \cup TradePercentages
        ras   == {gene.risk_appetite}
                    \cup {ClipRisk(FAdd(gene.risk_appetite, d)) : d \in NoiseSamples}
        tree  == gene.decision_tree
        trees == {tree} \cup
                 (IF Len(tree) > 2
                  THEN {DeleteAt(tree, k) : k \in 1..Len(tree)}
                          \cup {Append(tree, c) : c \in NewConditions}
                  ELSE {})
    IN  {[gene EXCEPT !.trade_percentage = tp, !.risk_appetite = ra,
                      !.decision_tree = t] : tp \in tps, ra \in ras, t \in trees}

\* ------------------------------------------------ create_new_generation
\* The elite loop run over every robot select_parents returned.
ElitesKeepAllMutant(parents) ==
    [i \in 1..Len(parents) |-> [parents[i] EXCEPT !.survived_cycles = @ + 1]]

\* The elite loop without its increment of survived_cycles.
ElitesMutant(parents) ==
    [i \in 1..Min(5, Len(parents)) |-> parents[i]]

\* The elite loop of create_new_generation (master.py lines 215-218).
Elites(parents) ==
    [i \in 1..Min(5, Len(parents)) |->
        [parents[i] EXCEPT !.survived_cycles = @ + 1]]

\* One pass of the while loop with survived_cycles floored at 0.
ChildrenMutant(new_population, parents, generation, initial_balance) ==
    LET parent_pool == SubSeq(parents, 1, Min(10, Len(parents)))
        pairs == IF Len(parent_pool) >= 2
                 THEN {pr \in (1..Len(parent_pool)) \X (1..Len(parent_pool)) :
                          pr[1] # pr[2]}
                 ELSE {<<1, 1>>}
    IN  UNION {{[NewRobot(Len(new_population), generation + 1,
                          initial_balance, g)
                    EXCEPT !.survived_cycles =
                       Max(0, Max(parent_pool[pr[1]].survived_cycles,
                                  parent_pool[pr[2]].survived_cycles) - 1)] :
                  g \in Mutate(Crossover(parent_pool[pr[1]].gene,
                                         parent_pool[pr[2]].gene))} :
               pr \in pairs}

\* One pass of the while loop (master.py lines 221-247): the children it can
\* append to new_population.  parents are the robots select_parents returned,
\* the first of them with survived_cycles already incremented.
Children(new_population, parents, generation, initial_balance) ==
    LET parent_pool == SubSeq(parents, 1, Min(10, Len(parents)))
        pairs == IF Len(parent_pool) >= 2
                 THEN {pr \in (1..Len(parent_pool)) \X (1..Len(parent_pool)) :
                          pr[1] # pr[2]}
                 ELSE {<<1, 1>>}
    IN  UNION {{[NewRobot(Len(new_population), generation + 1,
                          initial_balance, g)
                    EXCEPT !.survived_cycles =
                       Max(parent_pool[pr[1]].survived_cycles,
                           parent_pool[pr[2]].survived_cycles) - 1] :
                  g \in Mutate(Crossover(parent_pool[pr[1]].gene,
                                         parent_pool[pr[2]].gene))} :
               pr \in pairs}

\* The while loop that appends no child.
RefillMutant(new_population, parents, population_size, generation, initial_balance) ==
    {new_population}

\* The populations the while loop can end with.
RECURSIVE Refill(_, _, _, _, _)
Refill(new_population, parents, population_size, generation, initial_balance) ==
    IF Len(new_population) >= population_size \/ parents = <<>>
    THEN {new_population}
    ELSE UNION {Refill(Append(new_population, child), parents, population_size,
                       generation, initial_balance) :
                  child \in Children(new_population, parents, generation,
                                     initial_balance)}

\* create_new_generation: the populations it can assign, or the exception
\* select_parents raised.
CreateNewGeneration(population, population_size, generation, initial_balance) ==
    UNION {IF sel.raised THEN {[raised |-> TRUE, population |-> population]}
           ELSE LET elites  == Elites(sel.result)
                    parents == elites \o SubSeq(sel.result, Len(elites) + 1,
                                                Len(sel.result))
                IN  {[raised |-> FALSE, population |-> np] :
                        np \in Refill(elites, parents, population_size,
                                      generation, initial_balance)} :
             sel \in SelectParents(population, 5)}

\* ---------------------------------------------------------------- state
VARIABLES
    \* single-robot specification (SpecRobot)
    rb,        \* the Robot
    rbPrev,    \* the Robot as it was before the last operation
    rbLast,    \* the last operation: its inputs, what it returned
    rbCalls,   \* operations so far
    rbBuys,    \* per symbol: the Buy fills since the position was opened
    \* select_parents on its own (SpecSelect)
    selPop,    \* the population argument
    selK,      \* the elite_size argument
    selOut,    \* what the call did
    selDone    \* whether the call was made

robotVars == <<rb, rbPrev, rbLast, rbCalls, rbBuys>>

selVars == <<selPop, selK, selOut, selDone>>

VARIABLES
    \* mutate called twice on one gene (SpecSeed)
    seeded,    \* the random sources seeded, with one seed, before each call
    mutGene,   \* the gene argument
    mutOut,    \* the genes the two calls returned
    mutDone    \* whether the calls were made

seedVars == <<seeded, mutGene, mutOut, mutDone>>

VARIABLES
    \* one call of a function of metrics.py or genes.py (SpecMetrics,
    \* SpecCrossover)
    callArgs,   \* the arguments
    callResult, \* what the call returned
    callDone    \* whether the call was made

callVars == <<callArgs, callResult, callDone>>

VARIABLES
    \* the program: main() and its EvolutionManager (Spec)
    config,     \* the configuration load_config returned
    population, \* EvolutionManager.population
    generation, \* EvolutionManager.generation
    history,    \* EvolutionManager.history
    pc,         \* where main() is: "new" before the manager is constructed,
                \* "idle" at the head of its while loop, then the phase of
                \* run_generation, "stopped" after the loop
    minute,     \* the minute of the trading loop of run_generation
    idx,        \* the robot the current loop of run_generation is at
    market,     \* market_data['current_price'] of the current minute
    genCount,   \* generation_count of main()
    tradeSteps, \* robot.trade calls made so far
    evalInfo,   \* what the last evaluate_generation did
    events,     \* what the current (at "idle": the last) run_generation did,
                \* in order
    born,       \* robots create_new_generation has constructed so far
    evaluated   \* the population the last create_new_generation was
                \* called on

\* Every robot of `population` carries, next to the fields of the Python
\* object, the field oid: the identity of the object.
ghostVars == <<events, born, evaluated>>

evoVars == <<config, population, generation, history, pc, minute, idx, market,
             genCount, tradeSteps, evalInfo, ghostVars>>

vars == <<robotVars, selVars, seedVars, callVars, evoVars>>

NoBuys == [qty |-> 0, notional |-> 0, live |-> FALSE]
NoSelection == [raised |-> FALSE, result |-> <<>>, prob |-> "none"]
NoEvaluation == [ran |-> FALSE, raised |-> FALSE, error |-> "none",
                 attempted |-> 0, sorted |-> FALSE, size |-> 0]

\* The variables of a specification that does not use them.
RobotUnused ==
    /\ rb = NewRobot(0, 0, 0, CHOOSE g \in RandomGenes : TRUE)
    /\ rbPrev = rb
    /\ rbLast = [op |-> "none"]
    /\ rbCalls = 0
    /\ rbBuys = [s \in Symbols |-> NoBuys]

SelectUnused ==
    selPop = <<>> /\ selK = 0 /\ selOut = NoSelection /\ selDone = FALSE

SeedUnused ==
    seeded = {} /\ mutGene = <<>> /\ mutOut = <<>> /\ mutDone = FALSE

CallUnused ==
    callArgs = <<>> /\ callResult = <<>> /\ callDone = FALSE

EvoUnused ==
    /\ config = CHOOSE c \in Configs : TRUE
    /\ population = <<>>
    /\ generation = 0
    /\ history = <<>>
    /\ pc = "unused"
    /\ minute = 0 /\ idx = 0 /\ market = 0 /\ genCount = 0 /\ tradeSteps = 0
    /\ evalInfo = NoEvaluation
    /\ events = <<>> /\ born = 0 /\ evaluated = <<>>

\* -------------------------------------------- single-robot specification
RobotInit ==
    /\ \E b \in RobotBalances, g \in RandomGenes :
          /\ g.decision_tree = <<Catalog[1], Catalog[2]>>
          /\ rb = NewRobot(0, 0, b, g)
    /\ rbPrev = rb
    /\ rbLast = [op |-> "none"]
    /\ rbCalls = 0
    /\ rbBuys = [s \in Symbols |-> NoBuys]
    /\ SelectUnused
    /\ EvoUnused
    /\ SeedUnused
    /\ CallUnused

\* The running sums of the consecutive Buy fills of a symbol.
BuysAfterTrade(buys, before, res) ==
    LET s == res.info.symbol
        p == res.robot.trades[Len(res.robot.trades)].price
        q == res.info.qty
    IN  IF ~res.ret THEN buys
        ELSE IF res.info.action = "sell"
        THEN [buys EXCEPT ![s] = NoBuys]
        ELSE IF GetPosition(before.positions, s) = 0
        THEN [buys EXCEPT ![s] = [qty |-> q, notional |-> p * q, live |-> TRUE]]
        ELSE IF buys[s].live
        THEN [buys EXCEPT ![s] = [qty |-> @.qty + q,
                                  notional |-> @.notional + p * q,
                                  live |-> TRUE]]
        ELSE buys

\* The outcomes of place_order to tell apart: all of them when trade gets
\* as far as placing the order, one when it returns before.
OrdersFor(robot, symbol, price, decision) ==
    IF Trade(robot, symbol, price, decision, [kind |-> "empty"]).ordered
    THEN OrderOutcomes
    ELSE {[kind |-> "empty"]}

\* One call of rb.trade(symbol, market_data).
RobotTrade ==
    /\ rbCalls < MaxCalls
    /\ \E symbol \in Symbols, price \in Prices, decision \in Decisions :
       \E order \in OrdersFor(rb, symbol, price, decision) :
          LET res == Trade(rb, symbol, price, decision, order)
          IN  /\ rb' = res.robot
              /\ rbLast' = [op |-> "trade", ret |-> res.ret,
                            ordered |-> res.ordered, order |-> res.order,
                            info |-> res.info]
              /\ rbBuys' = BuysAfterTrade(rbBuys, rb, res)
    /\ rbPrev' = rb
    /\ rbCalls' = rbCalls + 1
    /\ UNCHANGED <<selVars, seedVars, callVars, evoVars>>

\* One call of rb.close_all_positions().
RobotClose ==
    /\ rbCalls < MaxCalls
    /\ \E outcome \in CloseOutcomes :
          LET res == CloseAllPositions(rb, outcome)
          IN  /\ rb' = res.robot
              /\ rbLast' = [op |-> "close", called |-> res.called,
                            outcome |-> IF res.called THEN outcome ELSE "none"]
              /\ rbBuys' = IF res.robot.positions # rb.positions
                           THEN [rbBuys EXCEPT ![rb.last_symbol] = NoBuys]
                           ELSE rbBuys
    /\ rbPrev' = rb
    /\ rbCalls' = rbCalls + 1
    /\ UNCHANGED <<selVars, seedVars, callVars, evoVars>>

RobotNext == RobotTrade \/ RobotClose

SpecRobot == RobotInit /\ [][RobotNext]_vars

\* ------------------------------------------------- claims on the Robot
LastTrade == rbLast.op = "trade"
LastFill == LastTrade /\ rbLast.ret
BookedTrade == rb.trades[Len(rb.trades)]
SameBooks ==
    /\ rb.balance = rbPrev.balance
    /\ rb.positions = rbPrev.positions
    /\ rb.trades = rbPrev.trades

\* C2: a Buy whose estimated notional (signal price x qty) exceeds the
\* balance returns False, never reaches place_order, and leaves balance,
\* positions and trades as they were before the call.
C2_BuyOverBalanceRejected ==
    (/\ LastTrade
     /\ rbLast.info.action = "buy"
     /\ rbLast.info.price_hint * rbLast.info.signal_qty > rbPrev.balance)
    => (/\ rbLast.ret = FALSE
        /\ rbLast.ordered = FALSE
        /\ SameBooks)

\* C2 witness: a Buy over the balance was rejected on a robot that already
\* holds a position and has a trade on its books.
C2_Witness ==
    /\ LastTrade
    /\ rbLast.info.action = "buy"
    /\ rbLast.info.price_hint * rbLast.info.signal_qty > rbPrev.balance
    /\ rbLast.ret = FALSE
    /\ Len(rbPrev.positions) > 0
    /\ Len(rbPrev.trades) > 0

\* C3: when place_order raises inside trade, trade returns False, the
\* exception does not leave trade, and balance, positions and trades are as
\* before the call.
C3_OrderExceptionContained ==
    (LastTrade /\ rbLast.ordered /\ rbLast.order.kind = "raise")
    => (/\ rbLast.ret = FALSE
        /\ rbLast.info.propagated = FALSE
        /\ SameBooks)

\* C3 witness: place_order raised for a Sell of a robot holding a position.
C3_Witness ==
    /\ LastTrade
    /\ rbLast.ordered
    /\ rbLast.order.kind = "raise"
    /\ rbLast.info.action = "sell"
    /\ Len(rb.positions) > 0
    /\ rbLast.ret = FALSE

\* The position of `symbol` a Buy of qty at price leaves, given the
\* positions before it (weighted-average cost, worker.py lines 33-45).
BoughtAt(before, symbol, qty, price) ==
    LET i == GetPosition(before, symbol)
    IN  IF i = 0 THEN [symbol |-> symbol, qty |-> qty, avg_price |-> <<price, 1>>]
        ELSE IF before[i].qty + qty <= 0
        THEN [symbol |-> symbol, qty |-> 0, avg_price |-> <<0, 1>>]
        ELSE [symbol |-> symbol, qty |-> before[i].qty + qty,
              avg_price |-> Frac(before[i].avg_price[1] * before[i].qty
                                    + price * qty * before[i].avg_price[2],
                                 before[i].avg_price[2] * (before[i].qty + qty))]

\* A fill booked at price p: the Trade record, the balance change and (for
\* a Buy) the position all carry p.
FillBookedAt(p) ==
    LET q == rbLast.info.qty
        s == rbLast.info.symbol
    IN  /\ BookedTrade.price = p
        /\ IF rbLast.info.action = "buy"
           THEN /\ rb.balance = rbPrev.balance - p * q
                /\ BookedTrade.cost = p * q
                /\ rb.positions[GetPosition(rb.positions, s)]
                      = BoughtAt(rbPrev.positions, s, q, p)
           ELSE /\ rb.balance = rbPrev.balance + p * q
                /\ BookedTrade.revenue = p * q

C5_NoZeroPosition ==
    \A i \in 1..Len(rb.positions) : rb.positions[i].qty > 0

\* C6: a Sell with no open position of the symbol, or with held qty <= 0,
\* is rejected; a Sell is booked for at most the held qty and at least the
\* minimum lot; no position ever has a negative qty.
C6_SellWithinHolding ==
    /\ (/\ LastTrade
        /\ rbLast.info.action = "sell"
        /\ \/ GetPosition(rbPrev.positions, rbLast.info.symbol) = 0
           \/ rbPrev.positions[GetPosition(rbPrev.positions,
                                           rbLast.info.symbol)].qty <= 0)
       => (rbLast.ret = FALSE /\ rbLast.ordered = FALSE /\ SameBooks)
    /\ (LastFill /\ rbLast.info.action = "sell")
       => LET i == GetPosition(rbPrev.positions, rbLast.info.symbol)
              held == rbPrev.positions[i].qty
          IN  /\ i # 0
              /\ BookedTrade.qty <= held
              /\ BookedTrade.qty <= rbLast.info.signal_qty
              /\ BookedTrade.qty >= MinQtyForSymbol(rbLast.info.symbol)
              /\ \/ BookedTrade.qty = held
                 \/ BookedTrade.qty = rbLast.info.signal_qty
    /\ (LastTrade /\ rbLast.ordered /\ rbLast.info.action = "sell")
       => rbLast.info.qty >= MinQtyForSymbol(rbLast.info.symbol)
    /\ \A i \in 1..Len(rb.positions) : rb.positions[i].qty >= 0

\* C6 witness: a Sell signal for more than the holding was clamped to the
\* holding and filled, which closed the position.
C6_Witness ==
    /\ LastFill
    /\ rbLast.info.action = "sell"
    /\ rbLast.info.signal_qty > rbLast.info.held
    /\ BookedTrade.qty = rbLast.info.held
    /\ GetPosition(rb.positions, rbLast.info.symbol) = 0

\* C7: while Buy fills on a symbol follow one another, the robot holds one
\* position of the symbol, its qty the sum of the filled quantities and its
\* avg_price the quantity-weighted mean of the fill prices.
C7_WeightedAverage ==
    \A s \in Symbols :
        rbBuys[s].live =>
            /\ Len(SelectSeq(rb.positions, LAMBDA p : p.symbol = s)) = 1
            /\ LET pos == rb.positions[GetPosition(rb.positions, s)]
               IN  /\ pos.qty = rbBuys[s].qty
                   /\ rbBuys[s].qty > 0 =>
                         pos.avg_price[1] * rbBuys[s].qty
                            = rbBuys[s].notional * pos.avg_price[2]

\* C7 witness: qty 1 at 100, then qty 1 at 200, gives qty 2 at 150.
C7_Witness ==
    /\ Len(rb.trades) = 2
    /\ rb.trades[1].qty = 1 /\ rb.trades[1].price = 100
    /\ rb.trades[2].qty = 1 /\ rb.trades[2].price = 200
    /\ rbBuys["BTCUSDT"] = [qty |-> 2, notional |-> 300, live |-> TRUE]
    /\ rb.positions = <<[symbol |-> "BTCUSDT", qty |-> 2,
                         avg_price |-> <<150, 1>>]>>

\* C8: close_all_positions on a robot without open positions changes
\* nothing of the robot, however often it is called; with positions open,
\* the local positions change only when close_all_longs was called and
\* returned, and then exactly the positions of last_symbol are dropped.
C8_CloseIdempotentAndOrdered ==
    rbLast.op = "close" =>
        /\ rbPrev.positions = <<>> => rb = rbPrev
        /\ rb.positions # rbPrev.positions =>
              (rbLast.called /\ rbLast.outcome # "raise")
        /\ rbLast.called /\ rbLast.outcome = "raise" => rb = rbPrev
        /\ rbLast.called /\ rbLast.outcome # "raise" =>
              rb.positions = RemoveSymbol(rbPrev.positions, rbPrev.last_symbol)
        /\ [rb EXCEPT !.positions = rbPrev.positions] = rbPrev

\* C8 witness: close_all_longs raised while a position was open, and the
\* local position is still there.
C8_Witness ==
    /\ rbLast.op = "close"
    /\ rbLast.called
    /\ rbLast.outcome = "raise"
    /\ GetPosition(rb.positions, rb.last_symbol) # 0

\* ------------------------------------------------ select_parents on its own
\* A robot of the population handed to select_parents: the robot_id tells
\* the objects apart.
SelectRobot(i, f) ==
    [NewRobot(i, 0, 20000, CHOOSE g \in RandomGenes : TRUE) EXCEPT !.fitness = f]

SelectInit ==
    /\ \E n \in 0..MaxSelectPop :
       \E fs \in [1..n -> FitnessSamples] :
          selPop = [i \in 1..n |-> SelectRobot(i, fs[i])]
    /\ selK \in -1..(MaxSelectPop + 1)
    /\ selOut = NoSelection
    /\ selDone = FALSE
    /\ RobotUnused
    /\ EvoUnused
    /\ SeedUnused
    /\ CallUnused

\* One call select_parents(selPop, elite_size=selK).
SelectCall ==
    /\ ~selDone
    /\ \E out \in SelectParents(selPop, selK) : selOut' = out
    /\ selDone' = TRUE
    /\ UNCHANGED <<selPop, selK, robotVars, seedVars, callVars,
                   evoVars>>

SelectNext == SelectCall

SpecSelect == SelectInit /\ [][SelectNext]_vars

\* C1: select_parents never raises and returns, for a population of n
\* robots and elite size k, the first min(k, n) robots of the input (none
\* for k < 0) as they are and in their order, followed by the other
\* n - min(k, n) robots of the input, each once: no robot appears twice, an
\* empty population gives an empty list, k >= n gives the elites only.
C1_SelectElitesThenDistinct ==
    selDone =>
        LET n   == Len(selPop)
            e   == Max(0, Min(selK, n))
            res == selOut.result
        IN  /\ selOut.raised = FALSE
            /\ Len(res) = n
            /\ \A i \in 1..e : res[i] = selPop[i]
            /\ \A i, j \in 1..Len(res) : i # j => res[i] # res[j]
            /\ \A i \in (e + 1)..Len(res) :
                  \E j \in (e + 1)..n : res[i] = selPop[j]
            /\ n = 0 => res = <<>>
            /\ selK >= n => res = selPop

\* C1 witness: of three robots the elite is kept in place and the other two
\* are returned in the other order, the second robot's fitness negative.
C1_Witness ==
    /\ selDone
    /\ Len(selPop) = 3
    /\ selK = 1
    /\ selOut.raised = FALSE
    /\ selOut.result = <<selPop[1], selPop[3], selPop[2]>>
    /\ selPop[2].fitness = <<-2, 1>>

\* ------------------------------------------------ main and run_generation
\* current_price values get_market_data can return: a lastPrice of the
\* ticker, 0 when the ticker is missing or has no lastPrice, the default
\* when the client raised.
MarketPrices == Prices \cup {0, FallbackPrice}

\* Outcomes of writing data/generation_N.json
FileOutcomes == {"written", "oserror"}

\* The robot with the identity of its object.
WithOid(robot, oid) ==
    [f \in DOMAIN robot \cup {"oid"} |-> IF f = "oid" THEN oid ELSE robot[f]]

HasOid(robot) == "oid" \in DOMAIN robot

\* The population with an identity given to each robot that has none yet:
\* first + 1, first + 2, ... in list order.
Tag(pop, first) ==
    [i \in 1..Len(pop) |->
        IF HasOid(pop[i]) THEN pop[i]
        ELSE WithOid(pop[i], first + Cardinality({j \in 1..i : ~HasOid(pop[j])}))]

\* create_initial_population: robots 0..population_size-1 of generation 0
\* with the genes given.
CreateInitialPopulation(cfg, genes) ==
    [i \in 1..Len(genes) |-> NewRobot(i - 1, 0, cfg.initial_balance, genes[i])]

\* An update_profit that also keeps the books of update_after_trade: the
\* return on the previous balance and the balance itself are appended.
UpdateProfitMutant(robot, percent) ==
    LET previous_balance == robot.balance_history[Len(robot.balance_history)]
    IN  [robot EXCEPT
            !.current_profit = Frac(percent * robot.initial_balance, 100),
            !.returns = IF previous_balance > 0
                        THEN Append(@, Frac(robot.balance - previous_balance,
                                            previous_balance))
                        ELSE @,
            !.balance_history = Append(@, robot.balance)]

\* Robot.update_profit with random.uniform(-0.05, 0.1) = percent / 100
UpdateProfit(robot, percent) ==
    [robot EXCEPT !.current_profit = Frac(percent * robot.initial_balance, 100)]

\* np.mean of a non-empty sequence of floats
NpMean(xs) ==
    LET total == FSum(xs)
    IN  IF IsFinite(total) THEN FMul(total, <<1, Len(xs)>>) ELSE total

\* generation_info of save_generation_history (the timestamps left out)
GenerationInfo(pop, gen) ==
    [generation |-> gen,
     best_robot |-> [id |-> pop[1].robot_id, profit |-> pop[1].current_profit,
                     fitness |-> pop[1].fitness],
     avg_profit |-> NpMean([i \in 1..Len(pop) |-> pop[i].current_profit]),
     avg_fitness |-> NpMean([i \in 1..Len(pop) |-> pop[i].fitness])]

\* The while condition of main()
LoopCondition ==
    genCount < MainMaxGenerations /\ generation < GenerationCap

\* Where run_generation goes once the trading loop is over: the closing
\* loop, which an empty population passes at once.
AfterTrading == IF population = <<>> THEN "evaluate" ELSE "closing"

\* run_generation going from the last minute straight to evaluate_generation.
AfterMinuteMutant(m) ==
    IF m + 1 < config.generation_duration_minutes
    THEN [pc |-> "market", minute |-> m + 1]
    ELSE [pc |-> "evaluate", minute |-> m]

\* Where run_generation goes once minute m is over.
AfterMinute(m) ==
    IF m + 1 < config.generation_duration_minutes
    THEN [pc |-> "market", minute |-> m + 1]
    ELSE [pc |-> AfterTrading, minute |-> m]

\* The inner loop fetching the market data again for every robot.
AfterRobotMutant(i, m) ==
    IF i < Len(population)
    THEN [pc |-> "market", idx |-> i + 1, minute |-> m]
    ELSE [pc |-> AfterMinute(m).pc, idx |-> 1, minute |-> AfterMinute(m).minute]

\* Where run_generation goes once robot i has traded in minute m: to the
\* next robot with the same market data, after the last to the next minute.
AfterRobot(i, m) ==
    IF i < Len(population)
    THEN [pc |-> "trading", idx |-> i + 1, minute |-> m]
    ELSE [pc |-> AfterMinute(m).pc, idx |-> 1, minute |-> AfterMinute(m).minute]

\* The except clause of main(): the exception is logged, generation_count
\* advances, the loop goes on.
Caught ==
    /\ pc' = "idle"
    /\ genCount' = genCount + 1

\* One entry of events: what was done, to which robot of the list, in which
\* minute and with which current_price (0 where there is none).
Event(op, i, m, price) == [op |-> op, idx |-> i, minute |-> m, price |-> price]

Did(op) == Event(op, 0, 0, 0)

\* The children the next create_new_generation constructs.
ChildrenNeeded ==
    IF population = <<>> THEN 0
    ELSE Max(0, config.population_size - Min(5, Len(population)))

EvoInit ==
    /\ config \in Configs
    /\ population = <<>>
    /\ generation = 0
    /\ history = <<>>
    /\ pc = "new"
    /\ minute = 0 /\ idx = 0 /\ market = 0 /\ genCount = 0 /\ tradeSteps = 0
    /\ evalInfo = NoEvaluation
    /\ events = <<>> /\ born = 0 /\ evaluated = <<>>
    /\ RobotUnused
    /\ SelectUnused
    /\ SeedUnused
    /\ CallUnused

\* EvolutionManager(config, client): no field of config is examined.
Construct ==
    /\ pc = "new"
    /\ \E genes \in [1..Max(0, config.population_size) -> InitialGenes] :
          population' = Tag(CreateInitialPopulation(config, genes), 0)
    /\ pc' = "idle"
    /\ UNCHANGED <<config, generation, history, minute, idx, market, genCount,
                   tradeSteps, evalInfo, ghostVars, robotVars, selVars,
                   seedVars, callVars>>

\* main() enters its loop body and run_generation starts.
StartGeneration ==
    /\ pc = "idle"
    /\ LoopCondition
    /\ tradeSteps + Len(population) * config.generation_duration_minutes
          <= MaxTradeSteps
    /\ born + ChildrenNeeded <= MaxChildren
    /\ IF config.generation_duration_minutes > 0
       THEN pc' = "market"
       ELSE pc' = AfterTrading
    /\ minute' = 0
    /\ idx' = 1
    /\ events' = <<Did("start")>>
    /\ UNCHANGED <<config, population, generation, history, market, genCount,
                   tradeSteps, evalInfo, born, evaluated, robotVars, selVars,
                   seedVars, callVars>>

\* main() leaves its loop.
MainExit ==
    /\ pc = "idle"
    /\ ~LoopCondition
    /\ pc' = "stopped"
    /\ UNCHANGED <<config, population, generation, history, minute, idx,
                   market, genCount, tradeSteps, evalInfo, ghostVars,
                   robotVars, selVars, seedVars, callVars>>

\* get_market_data at the head of a minute; it never raises.
FetchMarket ==
    /\ pc = "market"
    /\ market' \in MarketPrices
    /\ IF population = <<>>
       THEN /\ pc' = AfterMinute(minute).pc
            /\ minute' = AfterMinute(minute).minute
       ELSE /\ pc' = "trading"
            /\ minute' = minute
    /\ idx' = 1
    /\ events' = Append(events, Event("market", 0, minute, market'))
    /\ UNCHANGED <<config, population, generation, history, genCount,
                   tradeSteps, evalInfo, born, evaluated, robotVars, selVars,
                   seedVars, callVars>>

\* robot.trade(symbol, market_data) and robot.update_profit(current_price)
\* for the robot at idx.  An exception of trade leaves run_generation.
RobotStep ==
    /\ pc = "trading"
    /\ \E decision \in Decisions, percent \in ProfitPercents :
       \E order \in OrdersFor(population[idx], config.symbol, market, decision) :
          LET res == Trade(population[idx], config.symbol, market, decision,
                           order)
          IN  IF res.info.propagated
              THEN /\ population' = [population EXCEPT ![idx] = res.robot]
                   /\ Caught
                   /\ events' = events \o <<Event("trade", idx, minute, market),
                                            Did("raise")>>
                   /\ UNCHANGED <<minute, idx>>
              ELSE /\ population' = [population EXCEPT
                                        ![idx] = UpdateProfit(res.robot, percent)]
                   /\ genCount' = genCount
                   /\ events' = events \o <<Event("trade", idx, minute, market),
                                            Event("profit", idx, minute, market)>>
                   /\ idx' = AfterRobot(idx, minute).idx
                   /\ pc' = AfterRobot(idx, minute).pc
                   /\ minute' = AfterRobot(idx, minute).minute
    /\ tradeSteps' = tradeSteps + 1
    /\ UNCHANGED <<config, generation, history, market, evalInfo, born,
                   evaluated, robotVars, selVars, seedVars, callVars>>

\* robot.close_all_positions() for the robot at idx.
CloseStep ==
    /\ pc = "closing"
    /\ \E outcome \in CloseOutcomes :
          population' = [population EXCEPT
                            ![idx] = CloseAllPositions(@, outcome).robot]
    /\ IF idx < Len(population)
       THEN idx' = idx + 1 /\ pc' = pc
       ELSE idx' = 1 /\ pc' = "evaluate"
    /\ events' = Append(events, Event("close", idx, 0, 0))
    /\ UNCHANGED <<config, generation, history, minute, market, genCount,
                   tradeSteps, evalInfo, born, evaluated, robotVars, selVars,
                   seedVars, callVars>>

\* evaluate_generation
Evaluate ==
    /\ pc = "evaluate"
    /\ LET ev == EvaluateGeneration(population, config.fitness_weights)
       IN  /\ population' = ev.population
           /\ evalInfo' = [ran |-> TRUE, raised |-> ev.raised,
                           error |-> ev.error, attempted |-> ev.attempted,
                           sorted |-> ev.sorted, size |-> Len(population)]
           /\ IF ev.raised
              THEN Caught /\ events' = events \o <<Did("evaluate"), Did("raise")>>
              ELSE /\ pc' = "reproduce"
                   /\ genCount' = genCount
                   /\ events' = Append(events, Did("evaluate"))
    /\ UNCHANGED <<config, generation, history, minute, idx, market,
                   tradeSteps, born, evaluated, robotVars, selVars, seedVars, callVars>>

\* create_new_generation; each child gets the identity of a new object.
Reproduce ==
    /\ pc = "reproduce"
    /\ \E out \in CreateNewGeneration(population, config.population_size,
                                      generation, config.initial_balance) :
          LET first == Max(0, config.population_size) + born
              np    == Tag(out.population, first)
          IN  /\ population' = np
              /\ born' = born + Cardinality({i \in 1..Len(out.population) :
                                                ~HasOid(out.population[i])})
              /\ IF out.raised
                 THEN Caught /\ events' = events \o <<Did("select"), Did("raise")>>
                 ELSE /\ pc' = "save"
                      /\ genCount' = genCount
                      /\ events' = events \o <<Did("select"), Did("reproduce")>>
    /\ evaluated' = population
    /\ UNCHANGED <<config, generation, history, minute, idx, market,
                   tradeSteps, evalInfo, robotVars, selVars, seedVars, callVars>>

\* save_generation_history and the rest of run_generation: the record is
\* appended before the file is written, the counter advances after it.
SaveHistory ==
    /\ pc = "save"
    /\ history' = Append(history, GenerationInfo(population, generation))
    /\ \E written \in FileOutcomes :
          IF written = "written"
          THEN /\ generation' = generation + 1
               /\ events' = events \o <<Did("record"), Did("advance")>>
          ELSE /\ generation' = generation
               /\ events' = events \o <<Did("record"), Did("raise")>>
    /\ Caught
    /\ UNCHANGED <<config, population, minute, idx, market, tradeSteps,
                   evalInfo, born, evaluated, robotVars, selVars, seedVars, callVars>>

Next ==
    \/ Construct
    \/ StartGeneration
    \/ MainExit
    \/ FetchMarket
    \/ RobotStep
    \/ CloseStep
    \/ Evaluate
    \/ Reproduce
    \/ SaveHistory

Spec == EvoInit /\ [][Next]_vars

\* ------------------------------------------------ claims on the controller
\* The configuration the specification calls valid: all six fitness weights,
\* a positive population size and a positive initial balance.
ConfigValid(cfg) ==
    /\ \A i \in 1..Len(WeightKeys) : WeightKeys[i] \in DOMAIN cfg.fitness_weights
    /\ cfg.population_size > 0
    /\ cfg.initial_balance > 0

\* C9: a configuration that lacks one of the six fitness weights, or has a
\* non-positive population size or initial balance, makes the construction
\* of the controller fail: no manager exists and no robot.trade call of any
\* generation is made under such a configuration.
C9_InvalidConfigNeverTrades ==
    (pc # "new" \/ tradeSteps > 0) => ConfigValid(config)

\* C10: when the fitness computation of one robot fails in
\* evaluate_generation, the loop still reaches every robot of the population
\* and the pass ends with the population sorted.
C10_EvaluationFailuresIsolated ==
    evalInfo.ran =>
        /\ evalInfo.attempted = evalInfo.size
        /\ evalInfo.sorted

\* ------------------------------------------------ claims on run_generation
\* Whether the run recorded in events had a robot.trade call that raised.
TradingRaised ==
    \E k \in 1..(Len(events) - 1) :
        events[k].op = "trade" /\ events[k + 1].op = "raise"

\* The robots (list positions) close_all_positions was called on in the run
\* recorded in events.
ClosedInRun == {events[k].idx : k \in {j \in 1..Len(events) : events[j].op = "close"}}

\* C11: when a call of the trading pass of run_generation fails (the market
\* snapshot, the signal generation or the order placement), the run still
\* calls close_all_positions on every robot of the population: a run whose
\* trading pass raised has ended only after all of them were closed.
C11_CloseAfterTradingFailure ==
    (pc = "idle" /\ TradingRaised) => ClosedInRun = 1..Len(population)

\* ------------------------------------------- generations that breed children
\* Configurations whose population is larger than the five elites, with no
\* trading minutes, without and with an elite size.
BreedConfigs ==
    {[population_size |-> n, initial_balance |-> 20000,
      generation_duration_minutes |-> 0, symbol |-> "BTCUSDT",
      fitness_weights |-> FullWeights, elite_size |-> e,
      max_generations |-> <<>>] : n \in {6, 7}, e \in {<<>>, <<2>>}}

\* main() at the head of its loop, the manager just constructed: every robot
\* of the initial population drew the same gene, the population of seven the
\* one with the shorter tree.
BreedInit ==
    /\ config \in BreedConfigs
    /\ \E g \in InitialGenes :
          /\ config.population_size > 6 => Len(g.decision_tree) = 2
          /\ population = Tag(CreateInitialPopulation(config,
                                 [i \in 1..config.population_size |-> g]), 0)
    /\ generation = 0
    /\ history = <<>>
    /\ pc = "idle"
    /\ minute = 0 /\ idx = 0 /\ market = 0 /\ genCount = 0 /\ tradeSteps = 0
    /\ evalInfo = NoEvaluation
    /\ events = <<>> /\ born = 0 /\ evaluated = <<>>
    /\ RobotUnused
    /\ SelectUnused
    /\ SeedUnused
    /\ CallUnused

\* The steps of main() that a configuration without trading minutes takes.
BreedNext ==
    \/ StartGeneration
    \/ CloseStep
    \/ Evaluate
    \/ Reproduce
    \/ SaveHistory

SpecBreed == BreedInit /\ [][BreedNext]_vars

\* ------------------------------------------- claims on the generations
\* main() is between two runs and the last run_generation returned.
RunCompleted ==
    /\ pc = "idle"
    /\ events # <<>>
    /\ events[Len(events)].op = "advance"

\* C12: after every run_generation that completed, the population holds
\* exactly population_size robots (population_size > 0; the elite size of
\* create_new_generation is always 5).
C12_PopulationSizeKept ==
    (RunCompleted /\ config.population_size > 0)
        => Len(population) = config.population_size

\* C12 witness: a run completed for a population of seven, two of them
\* children of this run.
C12_Witness ==
    /\ RunCompleted
    /\ config.population_size = 7
    /\ Len(population) = 7
    /\ Cardinality({i \in 1..7 : population[i].generation_born = generation}) = 2

\* The elite size the configuration asks for: 5 when it names none.
ConfiguredEliteSize(cfg) ==
    IF cfg.elite_size = <<>> THEN 5 ELSE cfg.elite_size[1]

\* The robots of the population that create_new_generation took over from
\* the population it was called on (list positions).
CarriedOver ==
    {i \in 1..Len(population) :
        \E j \in 1..Len(evaluated) : evaluated[j].oid = population[i].oid}

\* C13: the number of robots create_new_generation carries over is the
\* configured elite size (5 when none is configured), at most the size of
\* the population: min(eliteSize, populationSize) robots survive.
C13_EliteSizeFromConfig ==
    pc = "save" =>
        Cardinality(CarriedOver)
            = Min(ConfiguredEliteSize(config), Len(evaluated))

\* ---------------------------------------- create_new_generation on its own
\* The robot of list position i after a trading minute at price 100 and the
\* closing loop: a Buy filled at 100 when it bought, no order otherwise, and
\* the profit update with the percent given.
TradedRobot(i, gene, bought, percent) ==
    LET fresh  == WithOid(NewRobot(i - 1, 0, 20000, gene), i)
        order  == IF bought THEN [kind |-> "priced", executedPrice |-> 100]
                  ELSE [kind |-> "empty"]
        traded == Trade(fresh, "BTCUSDT", 100, "buy", order).robot
    IN  CloseAllPositions(UpdateProfit(traded, percent), "ok").robot

\* The events of a run of generation 0 up to evaluate_generation, for a
\* population of n robots and one trading minute at price 100.
EventsBeforeReproduce(n) ==
    LET steps == [k \in 1..(2 * n) |->
                    Event(IF k % 2 = 1 THEN "trade" ELSE "profit",
                          (k + 1) \div 2, 0, 100)]
        closes == [k \in 1..n |-> Event("close", k, 0, 0)]
    IN  <<Did("start"), Event("market", 0, 0, 100)>> \o steps \o closes
            \o <<Did("evaluate")>>

\* The gene drawn for the robot of list position i of a population of n
\* robots: the two genes of InitialGenes in turn; in a population of 7 the
\* two-condition gene, for the last two robots with other conditions of the
\* catalog.
GeneOf(i, n) ==
    LET short == CHOOSE g \in InitialGenes : Len(g.decision_tree) = 2
        long  == CHOOSE g \in InitialGenes : Len(g.decision_tree) = 3
    IN  IF n < 7 THEN (IF i % 2 = 1 THEN short ELSE long)
        ELSE IF i = 6
        THEN [short EXCEPT !.decision_tree = <<Catalog[3], Catalog[5]>>]
        ELSE IF i = 7
        THEN [short EXCEPT !.decision_tree = <<Catalog[6], Catalog[4]>>]
        ELSE short

\* run_generation of generation 0 about to call create_new_generation: the
\* population of 2, 6 or 7 robots has traded for one minute, at most one
\* robot bought (of 7 the last or none), at most one made the higher profit
\* (of 7 none), and evaluate_generation has sorted it.
ReproduceInit ==
    /\ \E n \in {2, 6, 7} :
       \E buyers \in {B \in SUBSET (1..n) :
                        /\ Cardinality(B) <= 1
                        /\ n = 7 => B \subseteq {7}},
          winners \in {W \in SUBSET (1..n) :
                         Cardinality(W) <= (IF n = 7 THEN 0 ELSE 1)} :
          LET raw == [i \in 1..n |->
                        TradedRobot(i, GeneOf(i, n), i \in buyers,
                                    IF i \in winners THEN 10 ELSE -5)]
              ev == EvaluateGeneration(raw, FullWeights)
          IN  /\ population = ev.population
              /\ evalInfo = [ran |-> TRUE, raised |-> ev.raised,
                             error |-> ev.error, attempted |-> ev.attempted,
                             sorted |-> ev.sorted, size |-> n]
              /\ config = [population_size |-> n, initial_balance |-> 20000,
                           generation_duration_minutes |-> 1,
                           symbol |-> "BTCUSDT",
                           fitness_weights |-> FullWeights,
                           elite_size |-> <<>>, max_generations |-> <<>>]
              /\ tradeSteps = n
              /\ events = EventsBeforeReproduce(n)
    /\ generation = 0
    /\ history = <<>>
    /\ pc = "reproduce"
    /\ minute = 0 /\ idx = 1 /\ market = 100 /\ genCount = 0
    /\ born = 0 /\ evaluated = <<>>
    /\ RobotUnused
    /\ SelectUnused
    /\ SeedUnused
    /\ CallUnused

\* create_new_generation and what run_generation does after it.
ReproduceNext == Reproduce \/ SaveHistory

SpecReproduce == ReproduceInit /\ [][ReproduceNext]_vars

\* ------------------------------------------------------------------ C14
\* The number of robots the elite loop carries over.
CarriedCount == Min(5, Len(evaluated))

\* C14: once create_new_generation has returned, the first min(5, n) places
\* of the new population hold the first min(5, n) robots of the evaluated
\* population: the same objects in the same order, equal in every field
\* except survived_cycles, which is one higher.  Those robots are the
\* highest-fitness ones: none ranked after an elite has a higher fitness, and
\* of two robots with equal fitness the one that stood earlier in the
\* population before the sort is ranked first.
C14_ElitesCarriedInPlace ==
    pc = "save" =>
        /\ Len(population) >= CarriedCount
        /\ \A k \in 1..CarriedCount :
              /\ population[k].oid = evaluated[k].oid
              /\ population[k] =
                    [evaluated[k] EXCEPT !.survived_cycles = @ + 1]
              /\ \A j \in (k + 1)..Len(evaluated) :
                    /\ ~FLess(evaluated[k].fitness, evaluated[j].fitness)
                    /\ evaluated[k].fitness = evaluated[j].fitness
                          => evaluated[k].oid < evaluated[j].oid

\* C14 witness: of six robots the sixth made the higher profit and was
\* ranked first; it is carried over in first place with survived_cycles 1,
\* and the robot ranked last is not carried over.
C14_Witness ==
    /\ pc = "save"
    /\ Len(evaluated) = 6
    /\ evaluated[1].oid = 6
    /\ FLess(evaluated[6].fitness, evaluated[1].fitness)
    /\ population[1].oid = 6
    /\ population[1].survived_cycles = 1
    /\ \A k \in 1..Len(population) : population[k].oid # evaluated[6].oid

\* ------------------------------------------------------------------ C15
\* The places of the new population that hold robots constructed by the last
\* create_new_generation.
ChildPlaces ==
    {i \in 1..Len(population) :
        \A j \in 1..Len(evaluated) : evaluated[j].oid # population[i].oid}

\* The robots random.sample draws the two parents from: parents[:10] of what
\* select_parents returned, the carried-over robots as they are after the
\* elite loop.
ParentPool ==
    LET parents == [j \in 1..Len(evaluated) |->
                       IF j <= CarriedCount THEN population[j]
                       ELSE evaluated[j]]
    IN  SubSeq(parents, 1, Min(10, Len(parents)))

\* C15: once create_new_generation has returned, every robot it constructed
\* has generation_born = generation + 1, balance and initial_balance equal to
\* the configured initial_balance, no positions and no trades, and
\* survived_cycles equal to the larger of the survived_cycles of two
\* different robots of the parent pool, minus 1.
C15_ChildConstruction ==
    pc = "save" =>
        \A i \in ChildPlaces :
            /\ population[i].generation_born = generation + 1
            /\ population[i].balance = config.initial_balance
            /\ population[i].initial_balance = config.initial_balance
            /\ population[i].positions = <<>>
            /\ population[i].trades = <<>>
            /\ \E a, b \in 1..Len(ParentPool) :
                  /\ a # b
                  /\ population[i].survived_cycles =
                        Max(ParentPool[a].survived_cycles,
                            ParentPool[b].survived_cycles) - 1
                  /\ population[i].gene \in
                        Mutate(Crossover(ParentPool[a].gene, ParentPool[b].gene))

\* C15 witness: of seven robots the two ranked last, one of which has spent
\* part of its balance on a Buy, are the parents of a child: its
\* survived_cycles is -1 and its balance is the initial balance.
C15_Witness ==
    /\ pc = "save"
    /\ Len(evaluated) = 7
    /\ \E j \in {6, 7} : evaluated[j].balance < config.initial_balance
    /\ \E i \in ChildPlaces :
          /\ population[i].survived_cycles = -1
          /\ population[i].balance = config.initial_balance
          /\ population[i].generation_born = 1

\* ------------------------------------------------------------------ C16
\* C16: once create_new_generation has returned, no two robots of the
\* population have the same robot_id.
C16_RobotIdsUnique ==
    pc = "save" =>
        \A i, j \in 1..Len(population) :
            i # j => population[i].robot_id # population[j].robot_id

\* ------------------------------------------------------------------ C17
\* C17: when run_generation has completed, every robot of the population is
\* either one of the first min(5, n) robots of the evaluated population or a
\* robot constructed in this run, born in the generation just counted, with a
\* gene mutate can return for the crossover of two different robots of the
\* parent pool; no robot ranked after the first min(5, n) remains.
C17_ElitesAndChildrenOnly ==
    RunCompleted =>
        /\ \A i \in 1..Len(population) :
              \/ \E k \in 1..CarriedCount : population[i].oid = evaluated[k].oid
              \/ /\ i \in ChildPlaces
                 /\ population[i].generation_born = generation
                 /\ \E a, b \in 1..Len(ParentPool) :
                       /\ a # b
                       /\ population[i].gene \in
                             Mutate(Crossover(ParentPool[a].gene,
                                              ParentPool[b].gene))
        /\ \A j \in (CarriedCount + 1)..Len(evaluated) :
              \A i \in 1..Len(population) : population[i].oid # evaluated[j].oid

\* C17 witness: a completed run on six robots in which the robot first in the
\* list was ranked last: it is gone, five robots were carried over and the
\* sixth place holds a child.
C17_Witness ==
    /\ RunCompleted
    /\ Len(evaluated) = 6
    /\ evaluated[6].oid = 1
    /\ \A i \in 1..Len(population) : population[i].oid # 1
    /\ ChildPlaces = {6}
    /\ Cardinality({population[i].oid : i \in 1..5}) = 5

\* ------------------------------------------------------------------ C18
\* C18: while a run_generation call is under way, the generation counter is
\* below the configured max_generations, when the configuration sets one.
C18_ConfiguredCapStopsLoop ==
    (config.max_generations # <<>>
        /\ pc \in {"market", "trading", "closing", "evaluate", "reproduce",
                   "save"})
        => generation < config.max_generations[1]

\* ------------------------------------------------------------------ C20
\* C20: between run_generation calls the history has as many records as the
\* generation counter counts, and its records carry the generation indexes
\* 0, 1, 2, ... in order.
C20_OneRecordPerGeneration ==
    pc \in {"idle", "stopped"} =>
        /\ Len(history) = generation
        /\ \A i \in 1..Len(history) : history[i].generation = i - 1

\* ------------------------------------------------- mutate, called twice
\* The random sources the code draws from: the module random and np.random.
RandomSources == {"random", "np.random"}

\* What mutate draws from the module random (genes.py lines 9, 13, 19, 22,
\* 23, 27-30): the three gates, delete or append, the place deleted (the
\* first or the last), the condition appended.
RandomDraws ==
    [tp_gate : BOOLEAN, ra_gate : BOOLEAN, tree_gate : BOOLEAN,
     delete : BOOLEAN, first : BOOLEAN, condition : NewConditions]

\* What mutate draws from np.random (genes.py lines 10, 15).
NpRandomDraws == [uniform : TradePercentages, normal : NoiseSamples]

\* mutate(gene) with the values its draws returned.
MutateDrawn(gene, r, n) ==
    LET tree == gene.decision_tree
    IN  [gene EXCEPT
            !.trade_percentage = IF r.tp_gate THEN n.uniform ELSE @,
            !.risk_appetite = IF r.ra_gate THEN ClipRisk(FAdd(@, n.normal))
                              ELSE @,
            !.decision_tree =
                IF r.tree_gate /\ Len(tree) > 2
                THEN IF r.delete
                     THEN DeleteAt(tree, IF r.first THEN 1 ELSE Len(tree))
                     ELSE Append(tree, r.condition)
                ELSE tree]

\* The genes create_new_generation hands to mutate: crossover children.
SeedInit ==
    /\ seeded \in SUBSET RandomSources
    /\ \E g1, g2 \in RandomGenes : mutGene = Crossover(g1, g2)
    /\ mutOut = <<>>
    /\ mutDone = FALSE
    /\ RobotUnused
    /\ SelectUnused
    /\ CallUnused
    /\ EvoUnused

\* Two calls of mutate on the gene, each after the same seeding: a seeded
\* source returns the same values in both calls, one not seeded returns
\* whatever it returns.
MutateTwice ==
    /\ ~mutDone
    /\ \E r1, r2 \in RandomDraws, n1, n2 \in NpRandomDraws :
          /\ "random" \in seeded => r1 = r2
          /\ "np.random" \in seeded => n1 = n2
          /\ mutOut' = <<MutateDrawn(mutGene, r1, n1),
                         MutateDrawn(mutGene, r2, n2)>>
    /\ mutDone' = TRUE
    /\ UNCHANGED <<seeded, mutGene, robotVars, selVars, callVars, evoVars>>

SeedNext == MutateTwice

SpecSeed == SeedInit /\ [][SeedNext]_vars

\* ------------------------------------------------------------------ C19
\* C19: two calls of mutate on the same gene, each made after seeding a
\* random source with the same seed, return the same gene.
C19_SeededMutateRepeats ==
    (mutDone /\ seeded # {}) => mutOut[1] = mutOut[2]

\* ------------------------------------------------------------------ C21
\* The fitness values of the robots after the elites in the population
\* handed to select_parents.
CandidateFitness ==
    LET e == EliteCount(selK, Len(selPop))
    IN  [i \in 1..(Len(selPop) - e) |-> selPop[e + i].fitness]

\* The sum of the candidates' fitness values after the shift by the least of
\* them when that is negative, the n * 1e-12 left aside.
ShiftedTotal ==
    LET fs == CandidateFitness
        lo == NpMin(fs)
    IN  FSum([i \in 1..Len(fs) |->
                IF FLess(lo, <<0, 1>>) THEN FSub(fs[i], lo) ELSE fs[i]])

\* C21: a select_parents call that has candidates to sample does not raise;
\* the vector it hands to np.random.choice has finite entries, none
\* negative, that add up to the total they are divided by, which is finite
\* and positive, and at least as many positive entries as robots are
\* drawn.  It is the uniform vector, with the warning logged, exactly when
\* the shifted sum is not finite or not positive.
C21_ProbabilitiesWellFormed ==
    (selDone /\ Len(CandidateFitness) > 0) =>
        LET p == selOut.prob
            n == Len(CandidateFitness)
        IN  /\ selOut.raised = FALSE
            /\ Len(p.w) = n
            /\ \A i \in 1..n :
                  /\ IsFinite(p.w[i].whole)
                  /\ ~FLess(p.w[i].whole, <<0, 1>>)
                  /\ p.w[i].eps >= 0
            /\ FSum([i \in 1..n |-> p.w[i].whole]) = p.total.whole
            /\ FSum([i \in 1..n |-> <<p.w[i].eps, 1>>]) = <<p.total.eps, 1>>
            /\ IsFinite(p.total.whole) /\ WPositive(p.total)
            /\ Cardinality({i \in 1..n : WPositive(p.w[i])}) >= n
            /\ p.uniform <=>
                  (~IsFinite(ShiftedTotal)
                      \/ ~WPositive([whole |-> ShiftedTotal, eps |-> n]))
            /\ p.uniform => \A i \in 1..n : p.w[i] = p.w[1]

\* C21 witness: two candidates, both with fitness -2, are sampled with the
\* weights 1e-12 each, no fallback; both are returned.
C21_Witness ==
    /\ selDone
    /\ Len(selPop) = 3
    /\ selK = 1
    /\ CandidateFitness = << <<-2, 1>>, <<-2, 1>> >>
    /\ selOut.raised = FALSE
    /\ selOut.prob.uniform = FALSE
    /\ \A i \in 1..2 : selOut.prob.w[i] = [whole |-> <<0, 1>>, eps |-> 1]
    /\ Len(selOut.result) = 3

\* ------------------------------------------- the metrics, each called once
\* Floats handed to the metrics as returns.
ReturnValues == {<<0, 1>>, <<13, 16>>, <<7, 8>>, <<-7, 8>>}

\* Trade lists handed to the metrics.
TradeLists ==
    { <<>>,
      <<[action |-> "buy", cost |-> 100]>>,
      <<[action |-> "sell", revenue |-> 50]>>,
      <<[action |-> "buy", cost |-> 100], [action |-> "sell", revenue |-> 150]>> }

MetricsInit ==
    /\ \E n \in 0..3 : \E rs \in [1..n -> ReturnValues], ts \in TradeLists :
          callArgs = [returns |-> rs, trades |-> ts]
    /\ callResult = <<>>
    /\ callDone = FALSE
    /\ RobotUnused
    /\ SelectUnused
    /\ SeedUnused
    /\ EvoUnused

\* The four metrics called on the arguments.
MetricsCall ==
    /\ ~callDone
    /\ callResult' =
          [sharpe_ratio  |-> CalculateSharpeRatio(callArgs.returns),
           consistency   |-> CalculateConsistency(callArgs.returns),
           profit_factor |-> CalculateProfitFactor(callArgs.trades),
           win_rate      |-> CalculateWinRate(callArgs.trades)]
    /\ callDone' = TRUE
    /\ UNCHANGED <<callArgs, robotVars, selVars, seedVars, evoVars>>

MetricsNext == MetricsCall

SpecMetrics == MetricsInit /\ [][MetricsNext]_vars

\* ------------------------------------------------------------------ C22
\* C22: calculate_sharpe_ratio returns 0 for fewer than two returns and for
\* returns whose standard deviation is 0 (all equal); calculate_consistency
\* returns 0 for fewer than two returns and for returns that add up to 0;
\* calculate_profit_factor returns 10 when the costs of the buys add up to
\* 0; calculate_win_rate returns 0 for no trades.
C22_MetricFallbacks ==
    callDone =>
        LET returns == callArgs.returns
            trades  == callArgs.trades
        IN  /\ (Len(returns) < 2 \/ AllEqual(returns))
                  => callResult.sharpe_ratio = <<0, 1>>
            /\ (Len(returns) < 2 \/ FSum(returns) = <<0, 1>>)
                  => callResult.consistency = <<0, 1>>
            /\ SumOver(trades, "buy", "cost") = 0
                  => callResult.profit_factor = <<10, 1>>
            /\ trades = <<>> => callResult.win_rate = <<0, 1>>

\* ------------------------------------------------------------------ C23
\* The calls of one trading minute m for n robots: get_market_data, then
\* trade and update_profit robot by robot.
MinuteOps(n) ==
    <<"market">> \o [k \in 1..(2 * n) |-> IF k % 2 = 1 THEN "trade" ELSE "profit"]

RECURSIVE Repeat(_, _)
Repeat(seq, times) == IF times <= 0 THEN <<>> ELSE seq \o Repeat(seq, times - 1)

\* The calls of a completed run_generation for n robots and d minutes.
CompletedRunOps(n, d) ==
    <<"start">> \o Repeat(MinuteOps(n), d) \o [k \in 1..n |-> "close"]
        \o <<"evaluate", "select", "reproduce", "record", "advance">>

\* C23: a completed run_generation has made its calls in this order: for
\* every minute get_market_data and then trade and update_profit of the
\* robots in list order, then close_all_positions of every robot in list
\* order, then evaluate_generation (which sorted the population), then
\* select_parents, the construction of the new population, the append to
\* history and the increment of the generation counter, which is one above
\* the index of the record appended.
C23_PhasesInOrder ==
    RunCompleted =>
        LET n   == Len(evaluated)
            d   == config.generation_duration_minutes
            ops == CompletedRunOps(n, d)
        IN  /\ Len(events) = Len(ops)
            /\ \A k \in 1..Len(ops) : events[k].op = ops[k]
            /\ \A k \in 1..Len(events) :
                  /\ events[k].op \in {"trade", "profit"} =>
                        /\ events[k].minute = (k - 2) \div (2 * n + 1)
                        /\ events[k].idx = (((k - 2) % (2 * n + 1)) + 1) \div 2
                  /\ events[k].op = "close" =>
                        events[k].idx = k - 1 - d * (2 * n + 1)
            /\ evalInfo.ran /\ evalInfo.sorted /\ evalInfo.size = n
            /\ history # <<>>
            /\ history[Len(history)].generation = generation - 1

\* C23 witness: a completed run with two robots and one trading minute.
C23_Witness ==
    /\ RunCompleted
    /\ Len(evaluated) = 2
    /\ config.generation_duration_minutes = 1
    /\ Len(events) = 13
    /\ events[3].op = "trade" /\ events[3].idx = 1
    /\ events[5].op = "trade" /\ events[5].idx = 2
    /\ events[7].op = "close" /\ events[7].idx = 1
    /\ generation = 1

\* ------------------------------------------------------------------ C24
\* The places of events holding a get_market_data call of minute m.
MarketEvents(m) ==
    {j \in 1..Len(events) : events[j].op = "market" /\ events[j].minute = m}

\* C24: in a run_generation, get_market_data is called once per minute; every
\* trade and update_profit of that minute comes after it and gets the price
\* it returned; the robots trade in list order, each followed by its own
\* update_profit unless its trade raised.
C24_OneSnapshotPerMinute ==
    \A k \in 1..Len(events) :
        /\ events[k].op = "market" => MarketEvents(events[k].minute) = {k}
        /\ events[k].op \in {"trade", "profit"} =>
              \E j \in 1..(k - 1) :
                  /\ MarketEvents(events[k].minute) = {j}
                  /\ events[k].price = events[j].price
                  /\ events[k].idx =
                        Cardinality({t \in (j + 1)..k : events[t].op = events[k].op})
        /\ events[k].op = "profit" =>
              /\ events[k - 1].op = "trade"
              /\ events[k - 1].idx = events[k].idx

\* C24 witness: in one minute with a positive price both robots of the
\* population have traded and updated their profit with that price.
C24_Witness ==
    /\ Len(events) >= 6
    /\ events[2].op = "market" /\ events[2].price > 0
    /\ events[3] = Event("trade", 1, 0, events[2].price)
    /\ events[4] = Event("profit", 1, 0, events[2].price)
    /\ events[5] = Event("trade", 2, 0, events[2].price)
    /\ events[6] = Event("profit", 2, 0, events[2].price)

\* ------------------------------------------------------------------ C25
\* x <= y of two floats.
FLeq(x, y) == x = y \/ FLess(x, y)

\* C25: every gene of every robot of the population has a trade_percentage
\* in [0.01, 0.1], a risk_appetite in [0.1, 0.9] and an integer
\* max_trade_duration in [1, 10].
C25_GenesInRange ==
    \A i \in 1..Len(population) :
        LET gene == population[i].gene
        IN  /\ "trade_percentage" \in DOMAIN gene
            /\ FLeq(<<1, 100>>, gene.trade_percentage)
            /\ FLeq(gene.trade_percentage, <<1, 10>>)
            /\ "risk_appetite" \in DOMAIN gene
            /\ FLeq(<<1, 10>>, gene.risk_appetite)
            /\ FLeq(gene.risk_appetite, <<9, 10>>)
            /\ "max_trade_duration" \in DOMAIN gene
            /\ gene.max_trade_duration \in 1..10

\* ------------------------------------------------- crossover, called once
\* Decision trees of 2 to 5 conditions of the catalog.
CrossoverTrees ==
    { <<Catalog[1], Catalog[2]>>,
      <<Catalog[4], Catalog[3], Catalog[6]>>,
      <<Catalog[5], Catalog[6], Catalog[1], Catalog[2]>>,
      <<Catalog[1], Catalog[2], Catalog[3], Catalog[4], Catalog[5]>> }

\* Genes handed to crossover.
CrossoverGenes ==
    {[g EXCEPT !.decision_tree = t] : g \in RandomGenes, t \in CrossoverTrees}

CrossoverInit ==
    /\ \E g1, g2 \in CrossoverGenes : callArgs = [gene1 |-> g1, gene2 |-> g2]
    /\ callResult = <<>>
    /\ callDone = FALSE
    /\ RobotUnused
    /\ SelectUnused
    /\ SeedUnused
    /\ EvoUnused

CrossoverCall ==
    /\ ~callDone
    /\ callResult' = Crossover(callArgs.gene1, callArgs.gene2)
    /\ callDone' = TRUE
    /\ UNCHANGED <<callArgs, robotVars, selVars, seedVars, evoVars>>

CrossoverNext == CrossoverCall

SpecCrossover == CrossoverInit /\ [][CrossoverNext]_vars

\* ------------------------------------------------------------------ C26
\* C26: the decision tree crossover(a, b) returns is the first floor(|a|/2)
\* conditions of a's tree followed by the conditions of b's tree from place
\* floor(|b|/2) (counted from 0) to its end, in their order; its length is
\* floor(|a|/2) + ceil(|b|/2).
C26_CrossoverTree ==
    callDone =>
        LET a     == callArgs.gene1.decision_tree
            b     == callArgs.gene2.decision_tree
            child == callResult.decision_tree
            ha    == Len(a) \div 2
            hb    == Len(b) \div 2
        IN  /\ Len(child) = ha + (Len(b) - hb)
            /\ Len(child) = Len(a) \div 2 + (Len(b) + 1) \div 2
            /\ \A k \in 1..ha : child[k] = a[k]
            /\ \A k \in 1..(Len(b) - hb) : child[ha + k] = b[hb + k]

\* C26 witness: a tree of 2 crossed with a tree of 5 gives a tree of 4, the
\* length of neither parent.
C26_Witness ==
    /\ callDone
    /\ Len(callArgs.gene1.decision_tree) = 2
    /\ Len(callArgs.gene2.decision_tree) = 5
    /\ Len(callResult.decision_tree) = 4
    /\ callResult.decision_tree[1] = callArgs.gene1.decision_tree[1]
    /\ callResult.decision_tree[2] = callArgs.gene2.decision_tree[3]

\* ------------------------------------------------------------------ C27
\* C27: after any sequence of trade and close_all_positions calls the
\* balance is the initial balance minus the costs of the recorded buys plus
\* the revenues of the recorded sells; a trade call whose order was confirmed
\* has appended one record to trades, any other call none.
C27_BalanceMatchesTrades ==
    /\ rb.balance = rb.initial_balance - SumOver(rb.trades, "buy", "cost")
                        + SumOver(rb.trades, "sell", "revenue")
    /\ LastTrade =>
          LET confirmed == rbLast.ordered /\ rbLast.order.kind \in {"noprice", "priced"}
          IN  /\ confirmed => /\ Len(rb.trades) = Len(rbPrev.trades) + 1
                              /\ SubSeq(rb.trades, 1, Len(rbPrev.trades)) = rbPrev.trades
              /\ ~confirmed => rb.trades = rbPrev.trades
    /\ rbLast.op = "close" => rb.trades = rbPrev.trades

\* C27 witness: a buy and a sell are recorded, the sell at another price than
\* the buy, and the balance differs from the initial balance by the
\* difference.
C27_Witness ==
    /\ Len(rb.trades) = 2
    /\ rb.trades[1].action = "buy"
    /\ rb.trades[2].action = "sell"
    /\ rb.trades[1].cost > 0
    /\ rb.trades[2].revenue # rb.trades[1].cost
    /\ rb.balance = rb.initial_balance - rb.trades[1].cost + rb.trades[2].revenue

\* ------------------------------------------------------------------ C29
\* C29: close_all_positions leaves balance, trades, balance_history and
\* returns as they were; when close_all_longs returned, with success or with
\* failure, the local positions of last_symbol are gone, no proceeds were
\* credited and no Trade was recorded.
C29_CloseCreditsNothing ==
    rbLast.op = "close" =>
        /\ rb.balance = rbPrev.balance
        /\ rb.trades = rbPrev.trades
        /\ rb.balance_history = rbPrev.balance_history
        /\ rb.returns = rbPrev.returns
        /\ rbLast.called /\ rbLast.outcome \in {"ok", "failed"} =>
              /\ GetPosition(rb.positions, rbPrev.last_symbol) = 0
              /\ \A i \in 1..Len(rbPrev.positions) :
                    rbPrev.positions[i].symbol # rbPrev.last_symbol =>
                        \E j \in 1..Len(rb.positions) :
                            rb.positions[j] = rbPrev.positions[i]

\* C29 witness: a position bought earlier was dropped by a close whose
\* close_all_longs reported failure; the balance is still what the buy left
\* and the buy is still the only trade.
C29_Witness ==
    /\ rbLast.op = "close"
    /\ rbLast.called
    /\ rbLast.outcome = "failed"
    /\ GetPosition(rbPrev.positions, rbPrev.last_symbol) # 0
    /\ rb.positions = <<>>
    /\ Len(rb.trades) = 1
    /\ rb.balance = rb.initial_balance - rb.trades[1].cost
    /\ rb.balance < rb.initial_balance

\* ------------------------------------------------------------------ C28
\* run_generation of generation 0 about to call create_new_generation on a
\* population of one robot that has traded for one minute, and bought or
\* not, and has been evaluated.
ElderInit ==
    /\ \E bought \in BOOLEAN, percent \in ProfitPercents :
          LET raw == <<TradedRobot(1, GeneOf(1, 1), bought, percent)>>
              ev == EvaluateGeneration(raw, FullWeights)
          IN  /\ population = ev.population
              /\ evalInfo = [ran |-> TRUE, raised |-> ev.raised,
                             error |-> ev.error, attempted |-> ev.attempted,
                             sorted |-> ev.sorted, size |-> 1]
    /\ config = [population_size |-> 1, initial_balance |-> 20000,
                 generation_duration_minutes |-> 1, symbol |-> "BTCUSDT",
                 fitness_weights |-> FullWeights,
                 elite_size |-> <<>>, max_generations |-> <<>>]
    /\ tradeSteps = 1
    /\ events = EventsBeforeReproduce(1)
    /\ generation = 0
    /\ history = <<>>
    /\ pc = "reproduce"
    /\ minute = 0 /\ idx = 1 /\ market = 100 /\ genCount = 0
    /\ born = 0 /\ evaluated = <<>>
    /\ RobotUnused
    /\ SelectUnused
    /\ SeedUnused
    /\ CallUnused

\* The rest of that run_generation and the runs main() starts after it.
ElderNext ==
    \/ Reproduce
    \/ SaveHistory
    \/ StartGeneration
    \/ FetchMarket
    \/ RobotStep
    \/ CloseStep
    \/ Evaluate

SpecElders == ElderInit /\ [][ElderNext]_vars

\* C28: nothing run_generation invokes appends to balance_history or to
\* returns: in every state, and so at every fitness evaluation of every
\* generation, each robot of the population, elites of earlier generations
\* included, has balance_history = [initial_balance] and no returns,
\* whatever it traded.
C28_NoHistoryRecorded ==
    \A i \in 1..Len(population) :
        /\ population[i].balance_history = <<population[i].initial_balance>>
        /\ population[i].returns = <<>>

\* C28 witness: the evaluation of a later generation has run over a robot
\* born in an earlier one that bought in both generations and has a balance
\* other than its initial balance.
C28_Witness ==
    /\ pc = "reproduce"
    /\ evalInfo.ran
    /\ generation >= 1
    /\ \E i \in 1..Len(population) :
          /\ population[i].generation_born < generation
          /\ Len(population[i].trades) = 2
          /\ population[i].balance # population[i].initial_balance
          /\ population[i].balance_history = <<population[i].initial_balance>>

\* ------------------------------------------------------------------ C30
\* C30: between two run_generation calls, whether the last one returned or
\* raised, every robot of the population has generation_born at most the
\* generation counter.
C30_BornWithinCounter ==
    pc = "idle" =>
        \A i \in 1..Len(population) :
            population[i].generation_born <= generation
====
